---- MODULE Spec2Model ----
(***************************************************************************)
(* Trust ledger, consensus engine, proof pipeline and coordinator node of   *)
(* ProjectCollatz.                                                         *)
(*                                                                         *)
(* The repository carries two versions of the trust ledger:                *)
(*   build = "src" : src/trust_system.py            (no user accounts)     *)
(*   build = "lib" : src/build/lib/trust_system.py  (user rules added)     *)
(* and one proof pipeline, src/build/lib/proof_verification.py.  A         *)
(* behaviour of the model is a behaviour of one of the two builds; the     *)
(* build is chosen in Init and never changes.                              *)
(***************************************************************************)
EXTENDS Integers, Sequences, FiniteSets, TLC

(***************************************************************************)
(* Bounds of the model.                                                    *)
(***************************************************************************)
\* calls made on the ledger in one behaviour
MaxOps == 4
\* submissions made in one scenario run
MaxScenarioOps == 7
\* current wall-clock time, in seconds (time.time())
Now == 1000000

(***************************************************************************)
(* Identities.                                                             *)
(***************************************************************************)
None == "None"

\* the workers of the general ledger specification
LedgerWorkers == {"A", "B", "C"}
\* the workers of the scenario specification (A-E first, F and G further)
ScenarioWorkers == {"A", "B", "C", "D", "E", "F", "G"}
Workers == LedgerWorkers \cup ScenarioWorkers

\* key pair of each worker, and the key of a party that is no worker
KeyOf(w) == <<"key", w>>
OutsiderKey == <<"key", "X">>

\* ranges [start, end) that workers verify; the first is the spec's [1,1000)
Ranges == {<<1, 1000>>, <<1000, 2000>>}
ScenarioRange == <<1, 1000>>

(***************************************************************************)
(* TrustLevel and the class constants of TrustSystem.                      *)
(***************************************************************************)
TrustLevel == {"UNTRUSTED", "VERIFIED", "TRUSTED", "ELITE", "BANNED"}

\* the value of each enum member
LevelValue(l) ==
    CASE l = "UNTRUSTED" -> 0
      [] l = "VERIFIED"  -> 1
      [] l = "TRUSTED"   -> 2
      [] l = "ELITE"     -> 3
      [] l = "BANNED"    -> -1

VERIFIED_THRESHOLD == 10
TRUSTED_THRESHOLD == 100
ELITE_THRESHOLD == 1000

CONSENSUS_REQUIREMENTS(l) ==
    CASE l = "UNTRUSTED" -> 5
      [] l = "VERIFIED"  -> 3
      [] l = "TRUSTED"   -> 2
      [] l = "ELITE"     -> 1
      [] l = "BANNED"    -> 999

(***************************************************************************)
(* State.                                                                  *)
(***************************************************************************)
VARIABLES
    build,                \* which version of trust_system.py is installed
    owner,                \* the user account each worker node is logged in as
    workers,              \* TrustSystem.workers: worker id -> WorkerStats
    pending_consensus,    \* TrustSystem.pending_consensus: range -> ConsensusState
    pending_cross_checks, \* ProofVerificationSystem.pending_cross_checks
    last_call,            \* the call made by the last step and what it returned
    escalated,            \* history: range -> the required count the last
                          \* conflict on it escalated to (0: no conflict yet)
    nops,                 \* number of calls made so far
    work_assignments,     \* IPFSCoordinator.work_assignments: id -> WorkAssignment
    verification_proofs,  \* IPFSCoordinator.verification_proofs: id -> proof
    global_highest_proven,\* IPFSCoordinator.global_highest_proven
    worker_assignments,   \* IPFSCoordinator.worker_assignments: worker -> id
    progress_consensus,   \* the progress_<n> entries of the pending_consensus
                          \* of the coordinator's TrustSystem: n -> entry
    clock,                \* time.time() as the coordinator reads it
    available_workers,    \* IPFSCoordinator.available_workers:
                          \* worker -> [timestamp, user_id]
    counterexample_data,  \* the records given to broadcast_counterexample_found,
                          \* oldest first: the last one is
                          \* CounterexampleCoordinator.counterexample_data, the
                          \* others are the uploads of the earlier broadcasts
    voting_active,        \* CounterexampleCoordinator.voting_active
    votes_continue,       \* CounterexampleCoordinator.votes_continue
    voting_deadline       \* CounterexampleCoordinator.voting_deadline

\* the state of the coordinator node
\* the state of the counterexample handler of the node
handler_vars == <<counterexample_data, voting_active, votes_continue,
                  voting_deadline>>

coord_vars == <<work_assignments, verification_proofs, global_highest_proven,
                worker_assignments, progress_consensus, clock,
                available_workers, handler_vars>>

vars == <<build, owner, workers, pending_consensus, pending_cross_checks,
          last_call, escalated, nops, work_assignments, verification_proofs,
          global_highest_proven, worker_assignments, progress_consensus, clock,
          available_workers, handler_vars>>

\* a worker id that is not a key of TrustSystem.workers
NoStats == [registered |-> FALSE]
\* a range that is not a key of pending_consensus
NoState == [pending |-> FALSE]

\* days before the reputation of an inactive worker starts to decay
DECAY_PERIOD_DAYS == 30

Min(a, b) == IF a < b THEN a ELSE b

\* the value of reputation_score = 0.0
NoReputation ==
    [accuracy |-> <<0, 1>>, volume |-> 0, error_penalty |-> 0,
     consistency_halves |-> 0, decay_seconds |-> 0]

\* TrustSystem.calculate_reputation at time t.  The score is a float built
\* from the accuracy correct/total, a volume bonus min(20, 5*log10(total+1)),
\* an error penalty min(30, 10*consecutive_incorrect), a consistency bonus
\* min(15, 0.5*consecutive_correct) and a decay for the time of inactivity
\* beyond DECAY_PERIOD_DAYS; it is kept as these five terms.
calculate_reputation(stats, t) ==
    IF stats.total_verifications = 0 THEN NoReputation
    ELSE [accuracy |-> <<stats.correct_verifications, stats.total_verifications>>,
          volume |-> Min(9999, stats.total_verifications),
          error_penalty |-> Min(30, 10 * stats.consecutive_incorrect),
          consistency_halves |-> Min(30, stats.consecutive_correct),
          decay_seconds |->
              IF t - stats.last_active > DECAY_PERIOD_DAYS * 86400
              THEN t - stats.last_active - DECAY_PERIOD_DAYS * 86400 ELSE 0]

\* WorkerStats(worker_id=..., user_id=...) with the dataclass defaults
WorkerStats(u) ==
    [registered |-> TRUE,
     user_id |-> u,
     total_verifications |-> 0,
     correct_verifications |-> 0,
     incorrect_verifications |-> 0,
     total_numbers_checked |-> 0,
     total_compute_time |-> 0,
     trust_level |-> "UNTRUSTED",
     reputation_score |-> NoReputation,
     last_active |-> Now,
     consecutive_correct |-> 0,
     consecutive_incorrect |-> 0]

\* ConsensusState(range, required_confirmations=required, confirmations=[])
ConsensusState(required) ==
    [pending |-> TRUE,
     required_confirmations |-> required,
     confirmations |-> <<>>,
     consensus_reached |-> FALSE,
     consensus_result |-> None,
     conflicting_results |-> <<>>]

\* the fields of a VerificationResult that the ledger reads
VerificationResult(w, u, r, conv, n, t, ts) ==
    [worker_id |-> w, user_id |-> u, rng |-> r, all_converged |-> conv,
     numbers_checked |-> n, compute_time |-> t, timestamp |-> ts]

(***************************************************************************)
(* TrustSystem.register_worker                                             *)
(***************************************************************************)
register_worker(ws, w, u) ==
    IF ~ws[w].registered
    THEN [ws EXCEPT ![w] = WorkerStats(IF build = "lib" THEN u ELSE None)]
    ELSE IF build = "lib" /\ u # None /\ ws[w].user_id = None
         THEN [ws EXCEPT ![w].user_id = u]
         ELSE ws

(***************************************************************************)
(* TrustSystem.update_trust_level                                          *)
(***************************************************************************)
\* the variant of update_trust_level without the test for banned workers
update_trust_level_NoBanGuard(stats) ==
    IF /\ stats.total_verifications >= 20
       /\ \/ stats.incorrect_verifications * 10 > stats.total_verifications
          \/ stats.consecutive_incorrect >= 3
    THEN [stats EXCEPT !.trust_level = "BANNED"]
    ELSE IF /\ stats.correct_verifications >= ELITE_THRESHOLD
            /\ stats.incorrect_verifications = 0
    THEN [stats EXCEPT !.trust_level = "ELITE"]
    ELSE IF stats.correct_verifications >= TRUSTED_THRESHOLD
    THEN [stats EXCEPT !.trust_level = "TRUSTED"]
    ELSE IF stats.correct_verifications >= VERIFIED_THRESHOLD
    THEN [stats EXCEPT !.trust_level = "VERIFIED"]
    ELSE stats

\* the variant of update_trust_level that tests the promotion thresholds
\* before the ban conditions
update_trust_level_PromoteFirst(stats) ==
    IF stats.trust_level = "BANNED" THEN stats
    ELSE IF /\ stats.correct_verifications >= ELITE_THRESHOLD
            /\ stats.incorrect_verifications = 0
    THEN [stats EXCEPT !.trust_level = "ELITE"]
    ELSE IF stats.correct_verifications >= TRUSTED_THRESHOLD
    THEN [stats EXCEPT !.trust_level = "TRUSTED"]
    ELSE IF stats.correct_verifications >= VERIFIED_THRESHOLD
    THEN [stats EXCEPT !.trust_level = "VERIFIED"]
    ELSE IF /\ stats.total_verifications >= 20
            /\ \/ stats.incorrect_verifications * 10 > stats.total_verifications
               \/ stats.consecutive_incorrect >= 3
    THEN [stats EXCEPT !.trust_level = "BANNED"]
    ELSE stats

update_trust_level(stats) ==
    IF stats.trust_level = "BANNED" THEN stats
    ELSE IF /\ stats.total_verifications >= 20
            /\ \/ stats.incorrect_verifications * 10 > stats.total_verifications
               \/ stats.consecutive_incorrect >= 3
    THEN [stats EXCEPT !.trust_level = "BANNED"]
    ELSE IF /\ stats.correct_verifications >= ELITE_THRESHOLD
            /\ stats.incorrect_verifications = 0
    THEN [stats EXCEPT !.trust_level = "ELITE"]
    ELSE IF stats.correct_verifications >= TRUSTED_THRESHOLD
    THEN [stats EXCEPT !.trust_level = "TRUSTED"]
    ELSE IF stats.correct_verifications >= VERIFIED_THRESHOLD
    THEN [stats EXCEPT !.trust_level = "VERIFIED"]
    ELSE stats

\* the body of the reward loops of submit_verification and resolve_conflict
MarkCorrect(stats) ==
    LET marked == [stats EXCEPT !.correct_verifications = @ + 1,
                                !.consecutive_correct = @ + 1,
                                !.consecutive_incorrect = 0]
    IN update_trust_level(
          [marked EXCEPT !.reputation_score = calculate_reputation(marked, Now)])

\* the body of the penalty loop of resolve_conflict
MarkIncorrect(stats) ==
    LET marked == [stats EXCEPT !.incorrect_verifications = @ + 1,
                                !.consecutive_incorrect = @ + 1,
                                !.consecutive_correct = 0]
    IN update_trust_level(
          [marked EXCEPT !.reputation_score = calculate_reputation(marked, Now)])

(***************************************************************************)
(* TrustSystem.submit_verification                                         *)
(***************************************************************************)
\* "conf.user_id or 'unknown'": the key under which a confirmation is counted
UserKey(u) == IF u = None THEN "unknown" ELSE u

\* the user-level rules of the lib build, applied to a second or later
\* submission: TRUE when the submission is refused
UserRuleRejects(confs, result) ==
    LET original_user == confs[1].user_id
        current_user == result.user_id
        current_user_count ==
            Cardinality({i \in DOMAIN confs :
                            UserKey(confs[i].user_id) = UserKey(current_user)})
        other_user_count ==
            Cardinality({i \in DOMAIN confs :
                            UserKey(confs[i].user_id) # original_user})
    IN \/ /\ current_user = original_user
          /\ other_user_count = 0
          /\ Len(confs) >= 2
       \/ /\ current_user = original_user
          /\ current_user_count >= 1

\* all_results = [c.all_converged for c in confirmations]; len(set(..)) == 1
Unanimous(confs) ==
    \A i, j \in DOMAIN confs : confs[i].all_converged = confs[j].all_converged

\* mutant: only the worker of the last confirmation is credited
RewardConfirmers_LastOnly(ws, confs) ==
    [w \in Workers |->
        IF confs[Len(confs)].worker_id = w THEN MarkCorrect(ws[w]) ELSE ws[w]]

\* "for confirmation in consensus.confirmations: ... correct" (each worker
\* occurs once in confirmations, so the loop touches each worker once)
RewardConfirmers(ws, confs) ==
    [w \in Workers |->
        IF \E i \in DOMAIN confs : confs[i].worker_id = w
        THEN MarkCorrect(ws[w]) ELSE ws[w]]

\* mutant: a conflict lowers the required count by 3 instead of raising it
CheckForConsensus_Decrease(ws, pc, r) ==
    LET consensus == pc[r]
        confs == consensus.confirmations
    IN IF Len(confs) >= consensus.required_confirmations
       THEN IF Unanimous(confs)
            THEN [ws |-> RewardConfirmers(ws, confs),
                  pc |-> [pc EXCEPT ![r].consensus_reached = TRUE,
                                    ![r].consensus_result = confs[1].all_converged],
                  ok |-> TRUE, msg |-> "consensus"]
            ELSE [ws |-> ws,
                  pc |-> [pc EXCEPT ![r].conflicting_results = confs,
                                    ![r].required_confirmations = @ - 3],
                  ok |-> FALSE, msg |-> "conflict"]
       ELSE [ws |-> ws, pc |-> pc, ok |-> FALSE, msg |-> "waiting"]

\* mutant: a conflict marks the worker of the last confirmation incorrect
CheckForConsensus_PenalizeOnConflict(ws, pc, r) ==
    LET consensus == pc[r]
        confs == consensus.confirmations
    IN IF Len(confs) >= consensus.required_confirmations
       THEN IF Unanimous(confs)
            THEN [ws |-> RewardConfirmers(ws, confs),
                  pc |-> [pc EXCEPT ![r].consensus_reached = TRUE,
                                    ![r].consensus_result = confs[1].all_converged],
                  ok |-> TRUE, msg |-> "consensus"]
            ELSE [ws |-> [ws EXCEPT ![confs[Len(confs)].worker_id] =
                                        MarkIncorrect(@)],
                  pc |-> [pc EXCEPT ![r].conflicting_results = confs,
                                    ![r].required_confirmations = @ + 3],
                  ok |-> FALSE, msg |-> "conflict"]
       ELSE [ws |-> ws, pc |-> pc, ok |-> FALSE, msg |-> "waiting"]

\* "# Check for consensus" to the end of submit_verification, entered with
\* the new confirmation already appended
CheckForConsensus(ws, pc, r) ==
    LET consensus == pc[r]
        confs == consensus.confirmations
    IN IF Len(confs) >= consensus.required_confirmations
       THEN IF Unanimous(confs)
            THEN [ws |-> RewardConfirmers(ws, confs),
                  pc |-> [pc EXCEPT ![r].consensus_reached = TRUE,
                                    ![r].consensus_result = confs[1].all_converged],
                  ok |-> TRUE, msg |-> "consensus"]
            ELSE [ws |-> ws,
                  pc |-> [pc EXCEPT ![r].conflicting_results = confs,
                                    ![r].required_confirmations = @ + 3],
                  ok |-> FALSE, msg |-> "conflict"]
       ELSE [ws |-> ws, pc |-> pc, ok |-> FALSE, msg |-> "waiting"]

\* what a confirmation keeps of the submitted result
Confirmation(result) ==
    [worker_id |-> result.worker_id,
     user_id |-> IF build = "lib" THEN result.user_id ELSE None,
     all_converged |-> result.all_converged]

submit_verification(ws0, pc0, result) ==
    LET w == result.worker_id
        r == result.rng
        ws1 == register_worker(ws0, w, None)
        st1 == [ws1[w] EXCEPT !.last_active = result.timestamp,
                              !.total_verifications = @ + 1,
                              !.total_numbers_checked = @ + result.numbers_checked,
                              !.total_compute_time = @ + result.compute_time]
        st2 == IF build = "lib" /\ result.user_id # None /\ st1.user_id = None
               THEN [st1 EXCEPT !.user_id = result.user_id] ELSE st1
        ws2 == [ws1 EXCEPT ![w] = st2]
        pc1 == IF ~pc0[r].pending
               THEN [pc0 EXCEPT ![r] =
                        ConsensusState(CONSENSUS_REQUIREMENTS(st2.trust_level))]
               ELSE pc0
        confs == pc1[r].confirmations
        pc2 == [pc1 EXCEPT ![r].confirmations = Append(@, Confirmation(result))]
    IN IF \E i \in DOMAIN confs : confs[i].worker_id = w
       THEN [ws |-> ws2, pc |-> pc1, ok |-> FALSE, msg |-> "already_submitted"]
       ELSE IF build = "lib" /\ Len(confs) = 0
       THEN [ws |-> ws2, pc |-> pc2, ok |-> FALSE, msg |-> "original_work"]
       ELSE IF build = "lib" /\ UserRuleRejects(confs, result)
       THEN [ws |-> ws2, pc |-> pc1, ok |-> FALSE, msg |-> "user_rule"]
       ELSE CheckForConsensus(ws2, pc2, r)

(***************************************************************************)
(* TrustSystem.resolve_conflict                                            *)
(***************************************************************************)
\* correct_workers and incorrect_workers are lists of worker ids; the reward
\* loop runs first, the penalty loop second
resolve_conflict(ws, correct_workers, incorrect_workers) ==
    LET rewarded == [w \in Workers |->
                        IF w \in correct_workers /\ ws[w].registered
                        THEN MarkCorrect(ws[w]) ELSE ws[w]]
    IN [w \in Workers |->
            IF w \in incorrect_workers /\ rewarded[w].registered
            THEN MarkIncorrect(rewarded[w]) ELSE rewarded[w]]

(***************************************************************************)
(* Proof codec: ProofVerificationSystem in proof_verification.py           *)
(***************************************************************************)
\* expected_checked = (range_end - range_start) // 2
ExpectedChecked(r) == (r[2] - r[1]) \div 2

\* the compute time, in seconds, that every proof of the model reports
ComputeTime == 10

\* the dictionary that is hashed and signed (max_steps and ipfs_cid are the
\* same in every proof of the model and are left out)
ProofData(w, r, conv, n, t, ts) ==
    [worker_id |-> w, rng |-> r, all_converged |-> conv,
     numbers_checked |-> n, compute_time |-> t, timestamp |-> ts]

\* SHA-256 of the canonical JSON: collision-free, so the digest stands for
\* the data it was computed from
compute_proof_hash(proof_data) == <<"sha256", proof_data>>

\* Ed25519 signature of the hash under the private half of key
sign_proof(key, proof_data) ==
    [signer |-> key, signed |-> compute_proof_hash(proof_data)]

\* public_key.verify(signature, hash): only the holder of the key carried in
\* the proof can have produced a signature that verifies
verify_signature(public_key_pem, proof_data, signature_hex) ==
    /\ signature_hex.signer = public_key_pem
    /\ signature_hex.signed = compute_proof_hash(proof_data)

create_signed_proof(key, w, r, conv, n, t, ts) ==
    [worker_id |-> w, rng |-> r, all_converged |-> conv,
     numbers_checked |-> n, compute_time |-> t, timestamp |-> ts,
     public_key_pem |-> key,
     signature_hex |-> sign_proof(key, ProofData(w, r, conv, n, t, ts)),
     proof_hash |-> compute_proof_hash(ProofData(w, r, conv, n, t, ts))]

\* the error validate_proof returns, or "valid"
validate_proof(p) ==
    LET proof_data == ProofData(p.worker_id, p.rng, p.all_converged,
                                p.numbers_checked, p.compute_time, p.timestamp)
        expected_checked == ExpectedChecked(p.rng)
        diff == p.numbers_checked - expected_checked
        absdiff == IF diff < 0 THEN -diff ELSE diff
    IN IF ~verify_signature(p.public_key_pem, proof_data, p.signature_hex)
       THEN "invalid_signature"
       ELSE IF compute_proof_hash(proof_data) # p.proof_hash
       THEN "hash_mismatch"
       ELSE IF p.timestamp > Now + 300
       THEN "future_timestamp"
       ELSE IF Now - p.timestamp > 86400 * 7
       THEN "stale"
       ELSE IF p.rng[1] >= p.rng[2]
       THEN "start_ge_end"
       ELSE IF p.rng[1] < 0
       THEN "negative_start"
       ELSE IF absdiff * 10 > expected_checked
       THEN "numbers_checked_mismatch"
       ELSE "valid"

\* a proof as an honest worker w produces it
HonestProof(w, r, conv) ==
    create_signed_proof(KeyOf(w), w, r, conv, ExpectedChecked(r), ComputeTime, Now)

\* a proof that names w but is produced and signed by the outsider
ForgedProof(w, r, conv) ==
    create_signed_proof(OutsiderKey, w, r, conv, ExpectedChecked(r), ComputeTime, Now)

\* proofs naming w that validate_proof refuses, one for each of its checks
InvalidProofs(w) ==
    LET r == <<1, 1000>>
        good == HonestProof(w, r, TRUE)
    IN { [good EXCEPT !.all_converged = FALSE],
         [good EXCEPT !.proof_hash =
             compute_proof_hash(ProofData(w, r, FALSE, ExpectedChecked(r),
                                          ComputeTime, Now))],
         create_signed_proof(KeyOf(w), w, r, TRUE, ExpectedChecked(r),
                             ComputeTime, Now + 301),
         create_signed_proof(KeyOf(w), w, r, TRUE, ExpectedChecked(r),
                             ComputeTime, Now - 86400 * 7 - 1),
         create_signed_proof(KeyOf(w), w, <<5, 5>>, TRUE, 0, ComputeTime, Now),
         create_signed_proof(KeyOf(w), w, <<-10, 10>>, TRUE, 10, ComputeTime, Now),
         create_signed_proof(KeyOf(w), w, r, TRUE, ExpectedChecked(r) + 50,
                             ComputeTime, Now),
         [ForgedProof(w, r, TRUE) EXCEPT !.all_converged = FALSE] }

\* the proofs that are submitted in the ledger specification
ProofInputs ==
    {HonestProof(w, r, conv) : w \in LedgerWorkers, r \in Ranges, conv \in BOOLEAN}
    \cup UNION {InvalidProofs(w) : w \in LedgerWorkers}

(***************************************************************************)
(* Initial state: TrustSystem.__init__ / load_state                        *)
(***************************************************************************)
\* a WorkerStats as load_state reads it back from trust_database.json
StoredStats(u, total, correct, incorrect, level, streak) ==
    LET stats == [WorkerStats(IF build = "lib" THEN u ELSE None) EXCEPT
                    !.total_verifications = total,
                    !.correct_verifications = correct,
                    !.incorrect_verifications = incorrect,
                    !.total_numbers_checked = total * ExpectedChecked(<<1, 1000>>),
                    !.total_compute_time = total * ComputeTime,
                    !.trust_level = level,
                    !.consecutive_correct = streak]
    IN [stats EXCEPT !.reputation_score =
           IF correct + incorrect = 0 THEN NoReputation
           ELSE calculate_reputation(stats, Now)]

\* the user accounts of the ledger specification: B and C are two nodes of
\* one user
LedgerOwner ==
    [w \in Workers |-> IF w = "A" THEN "u1" ELSE IF w \in {"B", "C"} THEN "u2"
                       ELSE None]

\* the database the ledger specification starts from: A is ELITE, B is
\* VERIFIED and one reward short of TRUSTED, nobody else has been seen
StoredDatabase ==
    [w \in Workers |->
        IF w = "A" THEN StoredStats(LedgerOwner[w], 1000, 1000, 0, "ELITE", 1000)
        ELSE IF w = "B" THEN StoredStats(LedgerOwner[w], 99, 99, 0, "VERIFIED", 99)
        ELSE NoStats]

NoCall == [op |-> "none"]

\* a dict with no keys
EmptyMap == [k \in {} |-> k]

\* IPFSCoordinator.__init__ of a node that finds no network (standalone mode)
CoordinatorInit ==
    /\ work_assignments = EmptyMap
    /\ verification_proofs = EmptyMap
    /\ global_highest_proven = 0
    /\ worker_assignments = EmptyMap
    /\ progress_consensus = EmptyMap
    /\ clock = Now
    /\ available_workers = EmptyMap
    /\ counterexample_data = <<>>
    /\ voting_active = FALSE
    /\ votes_continue = EmptyMap
    /\ voting_deadline = None

Init ==
    /\ build \in {"src", "lib"}
    /\ owner = LedgerOwner
    /\ workers = StoredDatabase
    /\ pending_consensus = [r \in Ranges |-> NoState]
    /\ pending_cross_checks = [r \in Ranges |-> <<>>]
    /\ last_call = NoCall
    /\ escalated = [r \in Ranges |-> 0]
    /\ nops = 0
    /\ CoordinatorInit

(***************************************************************************)
(* Calls.                                                                  *)
(***************************************************************************)
\* DistributedCollatzWorker.__init__: trust_system.register_worker(id, user)
CallRegisterWorker(w) ==
    /\ nops < MaxOps
    /\ workers' = register_worker(workers, w, owner[w])
    /\ last_call' = [op |-> "register_worker", worker |-> w]
    /\ nops' = nops + 1
    /\ UNCHANGED <<build, owner, pending_consensus, pending_cross_checks,
                   escalated>>
    /\ UNCHANGED coord_vars

\* the history variable after a submission for range r that returned out
Escalation(out, r) ==
    IF out.msg = "conflict"
    THEN [escalated EXCEPT ![r] = out.pc[r].required_confirmations]
    ELSE escalated

\* a direct call of TrustSystem.submit_verification, the result carrying the
\* user id of the submitting node
CallSubmitVerification(w, r, conv, maxops) ==
    LET result == VerificationResult(w, owner[w], r, conv, ExpectedChecked(r),
                                     ComputeTime, Now)
        out == submit_verification(workers, pending_consensus, result)
    IN /\ nops < maxops
       /\ workers' = out.ws
       /\ pending_consensus' = out.pc
       /\ last_call' = [op |-> "submit_verification", worker |-> w, rng |-> r,
                        all_converged |-> conv, ok |-> out.ok, msg |-> out.msg]
       /\ escalated' = Escalation(out, r)
       /\ nops' = nops + 1
       /\ UNCHANGED <<build, owner, pending_cross_checks>>
       /\ UNCHANGED coord_vars

\* ProofVerificationSystem.submit_for_consensus.  In the lib build the
\* VerificationResult dataclass has a required user_id field that line 293
\* does not pass, so the constructor raises TypeError before the ledger is
\* called and a valid proof changes nothing.
submit_for_consensus(p) ==
    LET error == validate_proof(p)
        w == p.worker_id
        verification == VerificationResult(w, None, p.rng, p.all_converged,
                            p.numbers_checked, p.compute_time, p.timestamp)
        out == submit_verification(workers, pending_consensus, verification)
    IN /\ nops < MaxOps
       /\ nops' = nops + 1
       /\ UNCHANGED <<build, owner>>
       /\ UNCHANGED coord_vars
       /\ IF error # "valid"
          THEN /\ workers' = IF workers[w].registered
                             THEN [workers EXCEPT ![w].trust_level = "BANNED"]
                             ELSE workers
               /\ last_call' = [op |-> "submit_for_consensus", worker |-> w,
                                public_key_pem |-> p.public_key_pem,
                                signer |-> p.signature_hex.signer,
                                valid |-> FALSE, ok |-> FALSE,
                                msg |-> "validation_failed"]
               /\ UNCHANGED <<pending_consensus, pending_cross_checks, escalated>>
          ELSE IF build = "lib"
          THEN /\ last_call' = [op |-> "submit_for_consensus", worker |-> w,
                                public_key_pem |-> p.public_key_pem,
                                signer |-> p.signature_hex.signer,
                                valid |-> TRUE, ok |-> FALSE, msg |-> "TypeError"]
               /\ UNCHANGED <<workers, pending_consensus, pending_cross_checks,
                              escalated>>
          ELSE /\ escalated' = Escalation(out, p.rng)
               /\ workers' = out.ws
               /\ pending_consensus' = out.pc
               /\ pending_cross_checks' =
                      [pending_cross_checks EXCEPT ![p.rng] = Append(@, p)]
               /\ last_call' = [op |-> "submit_for_consensus", worker |-> w,
                                public_key_pem |-> p.public_key_pem,
                                signer |-> p.signature_hex.signer,
                                valid |-> TRUE, rng |-> p.rng,
                                all_converged |-> p.all_converged,
                                ok |-> out.ok, msg |-> out.msg]

\* ProofVerificationSystem.resolve_conflict_with_independent_verification
resolve_conflict_with_independent_verification(r, correct_result) ==
    LET proofs == pending_cross_checks[r]
        correct_workers ==
            {proofs[i].worker_id : i \in {j \in DOMAIN proofs :
                                          proofs[j].all_converged = correct_result}}
        incorrect_workers ==
            {proofs[i].worker_id : i \in {j \in DOMAIN proofs :
                                          proofs[j].all_converged # correct_result}}
    IN /\ nops < MaxOps
       /\ nops' = nops + 1
       /\ workers' = resolve_conflict(workers, correct_workers, incorrect_workers)
       /\ pending_consensus' = [pending_consensus EXCEPT ![r] = NoState]
       /\ pending_cross_checks' = [pending_cross_checks EXCEPT ![r] = <<>>]
       /\ last_call' = [op |-> "resolve_conflict", rng |-> r,
                        correct_result |-> correct_result]
       /\ UNCHANGED <<build, owner, escalated>>
       /\ UNCHANGED coord_vars

\* In the src build the ledger is fed by the proof pipeline; in the lib build
\* the pipeline cannot reach it and submit_verification is called directly.
Next ==
    \/ \E w \in LedgerWorkers : CallRegisterWorker(w)
    \/ /\ build = "lib"
       /\ \E w \in LedgerWorkers, r \in Ranges, conv \in BOOLEAN :
             CallSubmitVerification(w, r, conv, MaxOps)
    \/ \E p \in ProofInputs : submit_for_consensus(p)
    \/ \E r \in Ranges, correct_result \in BOOLEAN :
          resolve_conflict_with_independent_verification(r, correct_result)

Spec == Init /\ [][Next]_vars

(***************************************************************************)
(* Scenario specification: seven nodes of seven users start on an empty    *)
(* database and submit for the range [1,1000).  A-E submit first, in any   *)
(* order; F and G are the further workers and submit once the first five   *)
(* are in.  Everybody reports convergence, except that C may report a      *)
(* counterexample.                                                         *)
(***************************************************************************)
FirstFive == {"A", "B", "C", "D", "E"}

ScenarioOwner == [w \in Workers |-> <<"user", w>>]

ScenarioInit ==
    /\ build \in {"src", "lib"}
    /\ owner = ScenarioOwner
    /\ workers = [w \in Workers |-> NoStats]
    /\ pending_consensus = [r \in Ranges |-> NoState]
    /\ pending_cross_checks = [r \in Ranges |-> <<>>]
    /\ last_call = NoCall
    /\ escalated = [r \in Ranges |-> 0]
    /\ nops = 0
    /\ CoordinatorInit

\* the workers whose confirmation for range r has been accepted
Confirmers(r) ==
    IF pending_consensus[r].pending
    THEN {pending_consensus[r].confirmations[i].worker_id :
            i \in DOMAIN pending_consensus[r].confirmations}
    ELSE {}

ScenarioNext ==
    \E w \in ScenarioWorkers, conv \in BOOLEAN :
        /\ w # "C" => conv
        /\ w \notin FirstFive => FirstFive \subseteq Confirmers(ScenarioRange)
        /\ CallSubmitVerification(w, ScenarioRange, conv, MaxScenarioOps)

ScenarioSpec == ScenarioInit /\ [][ScenarioNext]_vars

(***************************************************************************)
(* Properties of the ledger and the consensus engine.                      *)
(***************************************************************************)
\* the confirmations accepted for range r in consensus table pc
ConfsOf(pc, r) == IF pc[r].pending THEN pc[r].confirmations ELSE <<>>

\* the last step was a submission that the ledger answered with msg
LastSubmission(msg) ==
    /\ last_call.op \in {"submit_verification", "submit_for_consensus"}
    /\ last_call.msg = msg

\* C1: a submission that brings a range's confirmations up to the required
\* count while the results disagree leaves the range not marked resolved and
\* raises required_confirmations by exactly 3, and a range is marked
\* resolved only while all of its accepted confirmations carry one result.
C1_UnanimityClaim ==
    [][\A r \in Ranges :
        LET c == pending_consensus[r]
            d == pending_consensus'[r]
        IN /\ (/\ c.pending /\ d.pending
               /\ Len(d.confirmations) = Len(c.confirmations) + 1
               /\ Len(d.confirmations) >= c.required_confirmations
               /\ ~Unanimous(d.confirmations))
              => (/\ ~d.consensus_reached
                  /\ d.required_confirmations = c.required_confirmations + 3)
           /\ (d.pending /\ d.consensus_reached) => Unanimous(d.confirmations)
      ]_vars

\* C2: a worker's tier never moves to a lower rank; the only change that is
\* not a promotion is the change to BANNED.
C2_TierMonotoneClaim ==
    [][\A w \in Workers :
        (workers[w].registered /\ workers'[w].registered
            /\ workers'[w].trust_level # workers[w].trust_level)
        => \/ workers'[w].trust_level = "BANNED"
           \/ /\ workers[w].trust_level # "BANNED"
              /\ LevelValue(workers'[w].trust_level)
                    > LevelValue(workers[w].trust_level)
      ]_vars

\* C3: a proof submitted by a worker whose tier is BANNED is never added to a
\* range's accepted confirmations.
C3_BannedRejectedClaim ==
    [][\A w \in Workers, r \in Ranges :
        (workers[w].registered /\ workers[w].trust_level = "BANNED"
            /\ w \in Confirmers(r)')
        => w \in Confirmers(r)
      ]_vars

\* C4: the accepted confirmations of a range hold at most one confirmation
\* per user.
C4_OneVotePerUserClaim ==
    \A r \in Ranges :
        \A i, j \in DOMAIN ConfsOf(pending_consensus, r) :
            LET confs == ConfsOf(pending_consensus, r)
            IN i # j => owner[confs[i].worker_id] # owner[confs[j].worker_id]

\* C5: submitting again a proof whose worker, range and result are already
\* among the accepted confirmations changes neither the ledger nor the
\* consensus state nor the stored proofs.
C5_IdempotentClaim ==
    [][(/\ last_call'.op \in {"submit_verification", "submit_for_consensus"}
        /\ last_call'.msg \notin {"validation_failed", "TypeError"}
        /\ \E i \in DOMAIN ConfsOf(pending_consensus, last_call'.rng) :
              LET c == ConfsOf(pending_consensus, last_call'.rng)[i]
              IN /\ c.worker_id = last_call'.worker
                 /\ c.all_converged = last_call'.all_converged)
       => UNCHANGED <<workers, pending_consensus, pending_cross_checks>>
      ]_vars

\* C's confirmation for the scenario range reports a counterexample
CDissents ==
    \E i \in DOMAIN ConfsOf(pending_consensus, ScenarioRange) :
        LET c == ConfsOf(pending_consensus, ScenarioRange)[i]
        IN c.worker_id = "C" /\ ~c.all_converged

\* C6 (scenario 2): with C dissenting among A-E the range is unresolved with
\* required count 8 after the fifth submission, it resolves with result
\* true once F and G have confirmed, and C's record is untouched.
C6_Scenario2Claim ==
    LET c == pending_consensus[ScenarioRange]
    IN CDissents =>
        /\ Len(c.confirmations) = 5
              => ~c.consensus_reached /\ c.required_confirmations = 8
        /\ Len(c.confirmations) = 7
              => c.consensus_reached /\ c.consensus_result = TRUE
        /\ workers["C"].incorrect_verifications = 0
        /\ workers["C"].consecutive_incorrect = 0
        /\ workers["C"].consecutive_correct = 0
        /\ workers["C"].trust_level = "UNTRUSTED"

C8_NeverBelowEscalationClaim ==
    \A r \in Ranges :
        (escalated[r] > 0 /\ pending_consensus[r].pending)
        => pending_consensus[r].required_confirmations >= escalated[r]

\* C8 amended: while the consensus state of a range exists, its required
\* count never decreases; resolve_conflict deletes the state and the next
\* submission starts a new one at the table value of its submitter's tier.
C8_RequiredMonotoneWhilePending ==
    [][\A r \in Ranges :
        (pending_consensus[r].pending /\ pending_consensus'[r].pending)
        => pending_consensus'[r].required_confirmations
              >= pending_consensus[r].required_confirmations
      ]_vars

C8_Witness ==
    \E r \in Ranges :
        /\ pending_consensus[r].pending
        /\ escalated[r] > 0
        /\ pending_consensus[r].required_confirmations = escalated[r]
        /\ Len(pending_consensus[r].confirmations)
              > Len(pending_consensus[r].conflicting_results)

\* C9: after submit_for_consensus has refused a proof in validation, the
\* proof has not reached consensus and the worker it names is BANNED.
C9_InvalidProofBansClaim ==
    (last_call.op = "submit_for_consensus" /\ ~last_call.valid)
    => /\ workers[last_call.worker].registered
       /\ workers[last_call.worker].trust_level = "BANNED"

(***************************************************************************)
(* The coordinator node: src/ipfs_coordinator.py.                          *)
(*                                                                         *)
(* The node keeps the work registry, the proofs and the frontier           *)
(* global_highest_proven, and owns a TrustSystem of its own whose workers  *)
(* are read from the same database.  Positions on the number line are      *)
(* scaled: RANGE_SIZE is 10_000_000_000 in the source and 100 here, and    *)
(* every threshold of the validators is the same multiple of RANGE_SIZE as *)
(* in the source (100, 10, 2 and 0.1 range-widths).                        *)
(***************************************************************************)
RANGE_SIZE == 100
REDUNDANCY_FACTOR == 3
WORK_TIMEOUT_SECONDS == 3600

\* calls made on the coordinator in one behaviour
MaxCoordOps == 6
\* the num_assignments passed to generate_work_frontier
GenerateCounts == {1}
\* the times at which the coordinator is called: now and an hour later, when
\* no proof made now is recent any more
Times == {Now, Now + 3600}

\* dict.values()
Values(f) == {f[k] : k \in DOMAIN f}

\* the workers known to the coordinator's ledger
ProgressWorkers == {"A", "B", "C"}

\* sha256 of "start-end-time", kept as the hashed triple
generate_assignment_id(range_start, range_end, t) == <<range_start, range_end, t>>
\* sha256 of "worker-assignment-time", kept as the hashed triple
generate_proof_id(w, assignment_id, t) == <<w, assignment_id, t>>

\* the WorkAssignment that create_work_assignment_internal builds at time t
WorkAssignment(range_start, range_end, t) ==
    [assignment_id |-> generate_assignment_id(range_start, range_end, t),
     range_start |-> range_start,
     range_end |-> range_end,
     redundancy_factor |-> REDUNDANCY_FACTOR,
     assigned_workers |-> <<>>,
     completed_workers |-> <<>>,
     status |-> "available",
     created_at |-> t,
     timeout_at |-> t + WORK_TIMEOUT_SECONDS,
     creator_user_id |-> None]

\* the fields of a VerificationProof that the coordinator reads
VerificationProof(w, a, conv, t) ==
    [proof_id |-> generate_proof_id(w, a.assignment_id, t),
     worker_id |-> w,
     assignment_id |-> a.assignment_id,
     range_start |-> a.range_start,
     range_end |-> a.range_end,
     all_converged |-> conv,
     timestamp |-> t]

\* create_work_assignment_internal without a creator: the registry afterwards
create_work_assignment_internal(wa, range_start, range_end, t) ==
    LET a == WorkAssignment(range_start, range_end, t)
    IN (a.assignment_id :> a) @@ wa

\* the loop of generate_work_frontier_internal, n assignments still to go
RECURSIVE FrontierLoop(_, _, _, _)
FrontierLoop(wa, current, n, t) ==
    IF n = 0 THEN wa
    ELSE LET range_end == current + RANGE_SIZE
             existing == \E a \in Values(wa) :
                            a.range_start = current /\ a.range_end = range_end
         IN FrontierLoop(IF existing THEN wa
                         ELSE create_work_assignment_internal(wa, current,
                                                              range_end, t),
                         range_end, n - 1, t)

generate_work_frontier_internal(wa, start_from, num_assignments, t) ==
    FrontierLoop(wa, IF start_from % 2 = 0 THEN start_from + 1 ELSE start_from,
                 num_assignments, t)

(***************************************************************************)
(* Progress validation.                                                    *)
(***************************************************************************)
\* the completed assignments that lie inside [start, end]
CompletedWithin(wa, start, end) ==
    {a \in Values(wa) : /\ a.status = "completed"
                        /\ a.range_start >= start
                        /\ a.range_end <= end}

\* the loop of _validate_continuous_coverage over the assignments S still to
\* visit in order of range_start: the position reached, or -1 at a gap
\* wider than a tenth of RANGE_SIZE
RECURSIVE CoverageLoop(_, _)
CoverageLoop(S, current_position) ==
    IF S = {} THEN current_position
    ELSE LET a == CHOOSE x \in S : \A y \in S : x.range_start <= y.range_start
         IN IF /\ a.range_start > current_position
               /\ (a.range_start - current_position) * 10 > RANGE_SIZE
            THEN -1
            ELSE CoverageLoop(S \ {a},
                              IF a.range_end > current_position
                              THEN a.range_end ELSE current_position)

_validate_continuous_coverage(wa, start, end) ==
    IF start >= end THEN TRUE
    ELSE LET relevant_assignments == CompletedWithin(wa, start, end)
         IN /\ relevant_assignments # {}
            /\ CoverageLoop(relevant_assignments, start) >= end

\* sum(range_end - range_start) over a set of assignments
RECURSIVE TotalCoverage(_)
TotalCoverage(S) ==
    IF S = {} THEN 0
    ELSE LET a == CHOOSE x \in S : TRUE
         IN (a.range_end - a.range_start) + TotalCoverage(S \ {a})

_has_sufficient_completed_work_for_progress(wa, vp, current_highest, progress, t) ==
    LET verified_ranges == CompletedWithin(wa, current_highest, progress)
        expected_coverage == progress - current_highest
        recent_cutoff == t - 3600
        recent_verifications ==
            {a \in verified_ranges :
                \E p \in Values(vp) : /\ p.assignment_id = a.assignment_id
                                      /\ p.timestamp > recent_cutoff}
    IN /\ _validate_continuous_coverage(wa, current_highest, progress)
       /\ verified_ranges # {}
       /\ \A a \in verified_ranges : Len(a.completed_workers) >= 2
       /\ expected_coverage > 0
       /\ TotalCoverage(verified_ranges) * 100 >= expected_coverage * 95
       /\ recent_verifications # {}

_validate_peer_progress_claim(wa, vp, highest, claimed_progress, t) ==
    IF claimed_progress * 100 < highest * 99 THEN FALSE
    ELSE IF claimed_progress > highest + RANGE_SIZE * 100 THEN FALSE
    ELSE IF _has_sufficient_completed_work_for_progress(wa, vp, highest,
                                                        claimed_progress, t)
    THEN TRUE
    ELSE claimed_progress <= highest + RANGE_SIZE * 10

_validate_progress_update(wa, vp, highest, new_progress, t) ==
    IF new_progress > highest + RANGE_SIZE * 2 THEN FALSE
    ELSE _has_sufficient_completed_work_for_progress(wa, vp, highest,
                                                     new_progress, t)

(***************************************************************************)
(* The coordinator's TrustSystem (src/build/lib/trust_system.py): progress *)
(* consensus, Byzantine detection and the trust restrictions.              *)
(***************************************************************************)
\* the WorkerStats objects of the ledger ws
StatsOf(ws) == {w \in DOMAIN ws : ws[w].registered}

can_user_make_progress_claims(ws, user_id) ==
    LET user_workers == {w \in StatsOf(ws) : ws[w].user_id = user_id}
        banned_workers == {w \in user_workers : ws[w].trust_level = "BANNED"}
        best == CHOOSE w \in user_workers :
                    \A v \in user_workers :
                        LevelValue(ws[w].trust_level) >= LevelValue(ws[v].trust_level)
    IN /\ user_id # None
       /\ user_workers # {}
       /\ banned_workers = {}
       /\ ws[best].trust_level \in {"VERIFIED", "TRUSTED", "ELITE"}

_get_required_confirmations_for_progress(ws, t) ==
    LET active_workers ==
            Cardinality({w \in StatsOf(ws) : /\ ws[w].trust_level # "BANNED"
                                             /\ t - ws[w].last_active < 86400})
        max_malicious == active_workers \div 3
        byzantine == 2 * max_malicious + 1
        at_least_three == IF byzantine < 3 THEN 3 ELSE byzantine
        max_practical == (active_workers * 2) \div 3
    IN IF active_workers < 3 THEN active_workers
       ELSE IF at_least_three < max_practical THEN at_least_three
       ELSE max_practical

\* the dict that submit_progress_claim stores under "progress_<n>"
ProgressEntry(claimed_progress, required, t) ==
    [claimed_progress |-> claimed_progress,
     required_confirmations |-> required,
     confirmations |-> <<>>,
     consensus_reached |-> FALSE,
     first_claim_time |-> t]

\* TrustSystem.submit_progress_claim: the entries afterwards and the answer
TrustSystem_submit_progress_claim(ws, pcs, w, user_id, claimed_progress, t) ==
    IF ~ws[w].registered THEN [pcs |-> pcs, ok |-> FALSE, msg |-> "unknown_worker"]
    ELSE IF ws[w].trust_level = "BANNED"
    THEN [pcs |-> pcs, ok |-> FALSE, msg |-> "banned_worker"]
    ELSE
    LET pcs1 == IF claimed_progress \in DOMAIN pcs THEN pcs
                ELSE (claimed_progress :>
                        ProgressEntry(claimed_progress,
                            _get_required_confirmations_for_progress(ws, t), t))
                     @@ pcs
        confs == pcs1[claimed_progress].confirmations
        claim == [worker_id |-> w, user_id |-> user_id, timestamp |-> t,
                  trust_level |-> ws[w].trust_level]
        reached == Len(confs) + 1 >= pcs1[claimed_progress].required_confirmations
    IN IF \E i \in DOMAIN confs : \/ confs[i].worker_id = w
                                  \/ confs[i].user_id = user_id
       THEN [pcs |-> pcs1, ok |-> FALSE, msg |-> "already_submitted"]
       ELSE [pcs |-> [pcs1 EXCEPT
                        ![claimed_progress].confirmations = Append(@, claim),
                        ![claimed_progress].consensus_reached =
                            IF reached THEN TRUE ELSE @],
             ok |-> reached,
             msg |-> IF reached THEN "consensus" ELSE "recorded"]

\* the suspicion score detect_byzantine_attacks gives one worker
SuspicionScore(stats) ==
    (IF /\ stats.total_verifications > 10
        /\ stats.incorrect_verifications * 100 > stats.total_verifications * 15
     THEN 3 ELSE 0)
    + (IF stats.total_compute_time > 0 /\ stats.total_numbers_checked > 0
       THEN IF stats.total_numbers_checked > stats.total_compute_time * 1000000
            THEN 4
            ELSE IF stats.total_numbers_checked < stats.total_compute_time * 100
            THEN 2 ELSE 0
       ELSE 0)
    + (IF stats.trust_level = "ELITE" /\ stats.consecutive_incorrect > 0
       THEN 3 ELSE 0)
    + (IF /\ stats.trust_level \in {"TRUSTED", "ELITE"}
          /\ stats.total_verifications < 50
       THEN 2 ELSE 0)

\* user_consensus_counts[user_id]: the confirmations that carry the user id,
\* summed over the entries with the keys in ks
RECURSIVE UserConsensusCount(_, _, _)
UserConsensusCount(pcs, ks, user_id) ==
    IF ks = {} THEN 0
    ELSE LET k == CHOOSE x \in ks : TRUE
             confs == pcs[k].confirmations
         IN Cardinality({i \in DOMAIN confs : confs[i].user_id = user_id})
            + UserConsensusCount(pcs, ks \ {k}, user_id)

detect_byzantine_attacks(ws, pcs) ==
    LET suspicious_workers ==
            {w \in StatsOf(ws) : SuspicionScore(ws[w]) >= 3}
        coordinated_attacks ==
            {u \in {c.user_id : c \in UNION {{e.confirmations[i] :
                        i \in DOMAIN e.confirmations} : e \in Values(pcs)}} :
                u # None /\ UserConsensusCount(pcs, DOMAIN pcs, u) > 3}
        total_suspicious == Cardinality(suspicious_workers)
        total_coordinated == Cardinality(coordinated_attacks)
    IN [suspicious_workers |-> suspicious_workers,
        coordinated_attacks |-> coordinated_attacks,
        risk_level |->
            IF total_suspicious >= 3 \/ total_coordinated >= 2 THEN "CRITICAL"
            ELSE IF total_suspicious >= 2 \/ total_coordinated >= 1 THEN "HIGH"
            ELSE IF total_suspicious >= 1 THEN "MEDIUM"
            ELSE "LOW"]

apply_byzantine_countermeasures(ws, attack_indicators) ==
    LET banned == [w \in DOMAIN ws |->
                    IF /\ w \in attack_indicators.suspicious_workers
                       /\ SuspicionScore(ws[w]) >= 5
                    THEN [ws[w] EXCEPT !.trust_level = "BANNED"]
                    ELSE ws[w]]
    IN IF attack_indicators.risk_level = "LOW" THEN ws
       ELSE [w \in DOMAIN ws |->
                IF /\ banned[w].registered
                   /\ banned[w].user_id \in attack_indicators.coordinated_attacks
                   /\ banned[w].trust_level \in {"TRUSTED", "ELITE"}
                THEN [banned[w] EXCEPT !.trust_level = "VERIFIED"]
                ELSE banned[w]]

(***************************************************************************)
(* Peer snapshots: the JSON documents merge_peer_state fetches.            *)
(***************************************************************************)
\* undecodable tells where decoding the document stops: nowhere ("none"),
\* at json.loads ("json"), at a record of the assignment list ("assignment")
\* or at a record of the proof list ("proof"); work_assignments and
\* verification_proofs are the records of the two lists that come before
\* that point
PeerState(highest, assignments, proofs) ==
    [global_highest_proven |-> highest,
     work_assignments |-> assignments,
     verification_proofs |-> proofs,
     undecodable |-> "none"]

\* a snapshot in which decoding stops at the place where
MalformedPeerState(peer_state, where) ==
    [peer_state EXCEPT !.undecodable = where]

\* the first range as a peer holds it: verified by three of its workers
PeerFirstRange ==
    [WorkAssignment(1, 1 + RANGE_SIZE, Now - 600) EXCEPT
        !.assigned_workers = <<"P", "Q", "R">>,
        !.completed_workers = <<"P", "Q", "R">>,
        !.status = "completed"]

\* a peer that has verified the first range and moved its frontier there
HonestPeerState ==
    PeerState(PeerFirstRange.range_end, {PeerFirstRange},
              {VerificationProof(w, PeerFirstRange, TRUE, Now - 300) :
                    w \in {"P", "Q", "R"}})

\* peers that publish a frontier and nothing that backs it
BarePeerStates ==
    {PeerState(n * RANGE_SIZE, {}, {}) : n \in {5, 12}}

PeerSnapshots == {HonestPeerState} \cup BarePeerStates

(***************************************************************************)
(* Initial state of the coordinator specification.                         *)
(***************************************************************************)
\* three nodes of three users
ProgressOwner ==
    [w \in Workers |-> IF w = "A" THEN "u1" ELSE IF w = "B" THEN "u2"
                       ELSE IF w = "C" THEN "u3" ELSE None]

\* A is TRUSTED, B is VERIFIED, C is UNTRUSTED, none of them suspicious
CleanDatabase ==
    [w \in Workers |->
        IF w = "A" THEN StoredStats(ProgressOwner[w], 100, 100, 0, "TRUSTED", 100)
        ELSE IF w = "B" THEN StoredStats(ProgressOwner[w], 12, 12, 0, "VERIFIED", 12)
        ELSE IF w = "C" THEN StoredStats(ProgressOwner[w], 0, 0, 0, "UNTRUSTED", 0)
        ELSE NoStats]

\* the same with two errors on record for B and for C
SuspectDatabase ==
    [w \in Workers |->
        IF w = "A" THEN StoredStats(ProgressOwner[w], 100, 100, 0, "TRUSTED", 100)
        ELSE IF w = "B" THEN StoredStats(ProgressOwner[w], 12, 10, 2, "VERIFIED", 0)
        ELSE IF w = "C" THEN StoredStats(ProgressOwner[w], 12, 8, 2, "UNTRUSTED", 0)
        ELSE NoStats]

ProgressInit ==
    /\ build \in {"src", "lib"}
    /\ owner = ProgressOwner
    /\ workers \in {CleanDatabase, SuspectDatabase}
    /\ pending_consensus = [r \in Ranges |-> NoState]
    /\ pending_cross_checks = [r \in Ranges |-> <<>>]
    /\ last_call = NoCall
    /\ escalated = [r \in Ranges |-> 0]
    /\ nops = 0
    /\ CoordinatorInit

\* what the calls on the coordinator leave alone
ledger_idle == UNCHANGED <<build, owner, pending_consensus,
                           pending_cross_checks, escalated>>

(***************************************************************************)
(* Calls on the coordinator.                                               *)
(***************************************************************************)
\* time passes
Tick ==
    /\ clock' \in {t \in Times : t > clock}
    /\ UNCHANGED <<build, owner, workers, pending_consensus,
                   pending_cross_checks, last_call, escalated, nops,
                   work_assignments, verification_proofs,
                   global_highest_proven, worker_assignments,
                   progress_consensus, available_workers, handler_vars>>

\* IPFSCoordinator.generate_work_frontier(num_assignments=n)
generate_work_frontier(num_assignments) ==
    /\ nops < MaxCoordOps
    /\ nops' = nops + 1
    /\ work_assignments' =
          generate_work_frontier_internal(work_assignments,
              global_highest_proven + 1, num_assignments, clock)
    /\ last_call' = [op |-> "generate_work_frontier"]
    /\ ledger_idle
    /\ UNCHANGED <<workers, verification_proofs, global_highest_proven,
                   worker_assignments, progress_consensus, clock,
                   available_workers, handler_vars>>

\* IPFSCoordinator.submit_verification_proof for an assignment of the registry
submit_verification_proof(w, assignment_id, all_converged) ==
    LET assignment == work_assignments[assignment_id]
        proof == VerificationProof(w, assignment, all_converged, clock)
        completed_workers ==
            IF \E i \in DOMAIN assignment.completed_workers :
                    assignment.completed_workers[i] = w
            THEN assignment.completed_workers
            ELSE Append(assignment.completed_workers, w)
    IN /\ nops < MaxCoordOps
       /\ nops' = nops + 1
       /\ assignment_id \in DOMAIN work_assignments
       /\ verification_proofs' =
             (proof.proof_id :> proof) @@ verification_proofs
       /\ work_assignments' = [work_assignments EXCEPT ![assignment_id] =
             [assignment EXCEPT
                !.completed_workers = completed_workers,
                !.status = IF Len(completed_workers) >= assignment.redundancy_factor
                           THEN "completed" ELSE assignment.status]]
       /\ worker_assignments' =
             [v \in DOMAIN worker_assignments \ {w} |-> worker_assignments[v]]
       /\ last_call' = [op |-> "submit_verification_proof"]
       /\ ledger_idle
       /\ UNCHANGED <<workers, global_highest_proven, progress_consensus, clock,
                      available_workers, handler_vars>>

\* the variant of the merge that, for an assignment both sides hold, adds
\* the peer's completed workers to the local ones
MergeAssignments_Append(wa, peer_assignments) ==
    LET ids == DOMAIN wa \cup {a.assignment_id : a \in peer_assignments}
        theirs(id) == CHOOSE a \in peer_assignments : a.assignment_id = id
    IN [id \in ids |->
          IF id \notin DOMAIN wa THEN theirs(id)
          ELSE IF \E a \in peer_assignments : a.assignment_id = id
               THEN [wa[id] EXCEPT !.completed_workers =
                                      @ \o theirs(id).completed_workers]
               ELSE wa[id]]

\* the registry after the assignments of a peer snapshot are merged in
MergeAssignments(wa, peer_assignments) ==
    LET ids == DOMAIN wa \cup {a.assignment_id : a \in peer_assignments}
        theirs(id) == CHOOSE a \in peer_assignments : a.assignment_id = id
    IN [id \in ids |->
          IF id \notin DOMAIN wa THEN theirs(id)
          ELSE IF /\ \E a \in peer_assignments : a.assignment_id = id
                  /\ Len(theirs(id).completed_workers) > Len(wa[id].completed_workers)
               THEN theirs(id)
               ELSE wa[id]]

\* the proofs after the proofs of a peer snapshot are merged in
MergeProofs(vp, peer_proofs) ==
    LET ids == DOMAIN vp \cup {p.proof_id : p \in peer_proofs}
    IN [id \in ids |->
          IF id \in DOMAIN vp THEN vp[id]
          ELSE CHOOSE p \in peer_proofs : p.proof_id = id]

\* the variant of merge_peer_state that takes the larger frontier as it comes
merge_peer_state_TakeMax(peer_state) ==
    LET peer_highest == peer_state.global_highest_proven
        accepted == peer_highest > global_highest_proven
    IN /\ nops < MaxCoordOps
       /\ nops' = nops + 1
       /\ work_assignments' =
             MergeAssignments(work_assignments, peer_state.work_assignments)
       /\ verification_proofs' =
             MergeProofs(verification_proofs, peer_state.verification_proofs)
       /\ global_highest_proven' =
             IF accepted THEN peer_highest ELSE global_highest_proven
       /\ last_call' = [op |-> "merge_peer_state", claimed |-> peer_highest,
                        ok |-> accepted, peer_state_cid |-> peer_state]
       /\ ledger_idle
       /\ UNCHANGED <<workers, worker_assignments, progress_consensus, clock,
                   available_workers, handler_vars>>

\* IPFSCoordinator.merge_peer_state for the snapshot peer_state.  The whole
\* body is one try block: an exception raised while a record is decoded ends
\* the call and leaves what was merged before it.
merge_peer_state(peer_state) ==
    LET merged == IF peer_state.undecodable = "json" THEN work_assignments
                  ELSE MergeAssignments(work_assignments,
                                        peer_state.work_assignments)
        proofs == IF peer_state.undecodable \in {"json", "assignment"}
                  THEN verification_proofs
                  ELSE MergeProofs(verification_proofs,
                                   peer_state.verification_proofs)
        peer_highest == peer_state.global_highest_proven
        accepted == /\ peer_state.undecodable = "none"
                    /\ peer_highest > global_highest_proven
                    /\ _validate_peer_progress_claim(merged, proofs,
                           global_highest_proven, peer_highest, clock)
    IN /\ nops < MaxCoordOps
       /\ nops' = nops + 1
       /\ work_assignments' = merged
       /\ verification_proofs' = proofs
       /\ global_highest_proven' =
             IF accepted THEN peer_highest ELSE global_highest_proven
       /\ last_call' = [op |-> "merge_peer_state", claimed |-> peer_highest,
                        ok |-> accepted, peer_state_cid |-> peer_state]
       /\ ledger_idle
       /\ UNCHANGED <<workers, worker_assignments, progress_consensus, clock,
                   available_workers, handler_vars>>

\* IPFSCoordinator.submit_progress_claim.  The trust ledger of the src build
\* has no can_user_make_progress_claims: there the call raises AttributeError
\* once the claim is above the frontier.
submit_progress_claim(w, user_id, new_highest) ==
    LET out == TrustSystem_submit_progress_claim(workers, progress_consensus,
                    w, user_id, new_highest, clock)
        attack_indicators == detect_byzantine_attacks(workers, out.pcs)
        refused(why) ==
            /\ last_call' = [op |-> "submit_progress_claim",
                             claimed |-> new_highest, ok |-> FALSE, msg |-> why]
            /\ UNCHANGED <<workers, progress_consensus, global_highest_proven>>
    IN /\ nops < MaxCoordOps
       /\ nops' = nops + 1
       /\ ledger_idle
       /\ UNCHANGED <<work_assignments, verification_proofs,
                      worker_assignments, clock, available_workers,
                      handler_vars>>
       /\ IF new_highest <= global_highest_proven THEN refused("not_higher")
          ELSE IF build = "src" THEN refused("AttributeError")
          ELSE IF ~can_user_make_progress_claims(workers, user_id)
          THEN refused("trust")
          ELSE IF ~_validate_progress_update(work_assignments,
                        verification_proofs, global_highest_proven,
                        new_highest, clock)
          THEN refused("validation")
          ELSE /\ progress_consensus' = out.pcs
               /\ last_call' = [op |-> "submit_progress_claim",
                                claimed |-> new_highest, ok |-> out.ok,
                                msg |-> out.msg]
               /\ workers' =
                     IF out.ok /\ attack_indicators.risk_level \in {"HIGH", "CRITICAL"}
                     THEN apply_byzantine_countermeasures(workers, attack_indicators)
                     ELSE workers
               /\ global_highest_proven' =
                     IF out.ok THEN new_highest ELSE global_highest_proven

\* the variant of update_global_highest that writes the value it is given
update_global_highest_Direct(new_highest) ==
    /\ nops < MaxCoordOps
    /\ nops' = nops + 1
    /\ global_highest_proven' = new_highest
    /\ last_call' = [op |-> "update_global_highest", claimed |-> new_highest]
    /\ ledger_idle
    /\ UNCHANGED <<workers, work_assignments, verification_proofs,
                   worker_assignments, progress_consensus, clock,
                   available_workers, handler_vars>>

\* IPFSCoordinator.update_global_highest: it prints a deprecation warning and
\* changes nothing of the coordinator
update_global_highest(new_highest) ==
    /\ nops < MaxCoordOps
    /\ nops' = nops + 1
    /\ last_call' = [op |-> "update_global_highest", claimed |-> new_highest]
    /\ ledger_idle
    /\ UNCHANGED <<workers, work_assignments, verification_proofs,
                   global_highest_proven, worker_assignments,
                   progress_consensus, clock, available_workers,
                   handler_vars>>

\* the values workers claim as the new frontier: the end of the first range
\* and the end of the third
ProgressClaims == {1 + RANGE_SIZE, 1 + 3 * RANGE_SIZE}

\* the claim of Scenario 4: 5,000 range-widths above the current frontier
FarClaim == global_highest_proven + 5000 * RANGE_SIZE

ProgressNext ==
    \/ Tick
    \/ \E n \in GenerateCounts : generate_work_frontier(n)
    \/ \E w \in ProgressWorkers, id \in DOMAIN work_assignments :
          submit_verification_proof(w, id, TRUE)
    \/ \E peer_state \in PeerSnapshots \cup {PeerState(FarClaim, {}, {})} :
          merge_peer_state(peer_state)
    \/ \E w \in ProgressWorkers, h \in ProgressClaims \cup {FarClaim} :
          submit_progress_claim(w, owner[w], h)
    \/ update_global_highest(1 + 3 * RANGE_SIZE)

ProgressSpec == ProgressInit /\ [][ProgressNext]_vars

(***************************************************************************)
(* Properties of the coordinator.                                          *)
(***************************************************************************)
\* position x lies in a completed assignment of the registry wa
VerifiedAt(wa, x) ==
    \E a \in Values(wa) : /\ a.status = "completed"
                          /\ a.range_start <= x
                          /\ x < a.range_end

\* every stretch of [from, to) that no completed assignment of wa covers is
\* at most a tenth of RANGE_SIZE long
CoveredSpan(wa, from, to) ==
    \A x \in from..(to - 1) :
        \E y \in x..(x + RANGE_SIZE \div 10) : y >= to \/ VerifiedAt(wa, y)

\* C10: the frontier moves forward, by a peer merge or by a progress claim,
\* only to a value such that the span from the old frontier to it is covered
\* by completed assignments with no gap wider than 10% of one range-width.
C10_CoverageClaim ==
    [][global_highest_proven' > global_highest_proven =>
          CoveredSpan(work_assignments', global_highest_proven,
                      global_highest_proven')]_vars

\* the step is a call of the coordinator operation named op
CallOf(op) == nops' = nops + 1 /\ last_call'.op = op

\* C11: across merge_peer_state, submit_progress_claim and
\* update_global_highest calls the frontier never decreases; it changes only
\* in a merge whose peer value passed _validate_peer_progress_claim or in a
\* progress claim whose value passed _validate_progress_update, and it then
\* is that value; a direct update_global_highest call leaves it unchanged.
C11_FrontierOnlyByValidatedClaim ==
    [][/\ global_highest_proven' >= global_highest_proven
       /\ global_highest_proven' # global_highest_proven =>
             /\ last_call'.claimed = global_highest_proven'
             /\ \/ /\ CallOf("merge_peer_state")
                   /\ _validate_peer_progress_claim(work_assignments',
                          verification_proofs', global_highest_proven,
                          global_highest_proven', clock)
                \/ /\ CallOf("submit_progress_claim")
                   /\ _validate_progress_update(work_assignments,
                          verification_proofs, global_highest_proven,
                          global_highest_proven', clock)
       /\ CallOf("update_global_highest") =>
             global_highest_proven' = global_highest_proven]_vars

\* update_global_highest was called with a value above a frontier that
\* validated claims had already moved, and the frontier stayed
C11_Witness ==
    /\ last_call.op = "update_global_highest"
    /\ global_highest_proven > 0
    /\ last_call.claimed > global_highest_proven

\* C12: (Scenario 4) a claim 5,000 range-widths above the current frontier
\* with no completed assignment in between, arriving in a peer snapshot or
\* through submit_progress_claim, is rejected and the frontier is unchanged.
C12_Scenario4 ==
    [][(/\ CallOf("merge_peer_state") \/ CallOf("submit_progress_claim")
        /\ last_call'.claimed = FarClaim
        /\ CompletedWithin(work_assignments', global_highest_proven,
                           FarClaim) = {})
          => /\ ~last_call'.ok
             /\ global_highest_proven' = global_highest_proven]_vars

\* a far claim was refused at a frontier that had already moved
C12_Witness ==
    /\ last_call.op \in {"merge_peer_state", "submit_progress_claim"}
    /\ last_call.claimed = FarClaim
    /\ ~last_call.ok
    /\ global_highest_proven > 0
    /\ CompletedWithin(work_assignments, global_highest_proven, FarClaim) = {}

(***************************************************************************)
(* The scheduler of the coordinator: heartbeats, stale eviction, random    *)
(* assignment.  WORK_BUFFER_SIZE is scaled from 50 to 2.                   *)
(***************************************************************************)
WORK_BUFFER_SIZE == 2
STALE_SECONDS == 300
MaxRegistryOps == 5

\* worker nodes and the accounts they run under: A1 and A2 are two nodes of
\* the same user
RegistryWorkers == {"A1", "A2", "B", "C"}
RegistryOwner ==
    [w \in RegistryWorkers |->
        CASE w \in {"A1", "A2"} -> "u1" [] w = "B" -> "u2" [] w = "C" -> "u3"]

\* the readings of time.time(): the start, and a time at which the entries
\* of the start are stale and the assignments made at the start are past
\* their timeout_at
RegistryTimes == {Now, Now + WORK_TIMEOUT_SECONDS + 1}

\* the sequences that list every element of S once: outcomes of random.shuffle
Shuffles(S) ==
    {f \in [1..Cardinality(S) -> S] : \A i, j \in DOMAIN f : f[i] = f[j] => i = j}

InSeq(x, seq) == \E i \in DOMAIN seq : seq[i] = x

\* list.remove(x): the list without the first occurrence of x
RemoveFirst(seq, x) ==
    IF ~InSeq(x, seq) THEN seq
    ELSE LET k == CHOOSE i \in DOMAIN seq :
                     seq[i] = x /\ \A j \in 1..(i - 1) : seq[j] # x
         IN [i \in 1..(Len(seq) - 1) |-> IF i < k THEN seq[i] ELSE seq[i + 1]]

Without(f, k) == [v \in DOMAIN f \ {k} |-> f[v]]

\* the eviction loop of register_worker_availability over the stale entries
RECURSIVE EvictLoop(_, _, _)
EvictLoop(st, stale, worker_id) ==
    IF stale = {} THEN st
    ELSE LET wid == CHOOSE x \in stale : TRUE
             held == wid \in DOMAIN st.wasg
             assignment_id == st.wasg[wid]
             wa1 == IF held /\ assignment_id \in DOMAIN st.wa
                    THEN [st.wa EXCEPT ![assignment_id] =
                            [st.wa[assignment_id] EXCEPT
                                !.assigned_workers =
                                    RemoveFirst(st.wa[assignment_id].assigned_workers,
                                                worker_id),
                                !.status = "available"]]
                    ELSE st.wa
         IN EvictLoop([aw |-> Without(st.aw, wid),
                       wa |-> wa1,
                       wasg |-> IF held THEN Without(st.wasg, wid) ELSE st.wasg],
                      stale \ {wid}, worker_id)

\* IPFSCoordinator.register_worker_availability on the state
\* st = [aw: available_workers, wa: work_assignments, wasg: worker_assignments]
register_worker_availability(st, worker_id, user_id, t) ==
    LET aw1 == (worker_id :> [timestamp |-> t, user_id |-> user_id]) @@ st.aw
        stale_workers == {wid \in DOMAIN aw1 : t - aw1[wid].timestamp > STALE_SECONDS}
    IN EvictLoop([st EXCEPT !.aw = aw1], stale_workers, worker_id)

\* the assignments that still want workers
NeedsAssignment(wa) ==
    {id \in DOMAIN wa : /\ wa[id].status \in {"available", "in_progress"}
                        /\ Len(wa[id].assigned_workers) < wa[id].redundancy_factor}

\* IPFSCoordinator.auto_generate_work_if_needed
auto_generate_work_if_needed(wa, highest, t) ==
    LET ends == {a.range_end : a \in Values(wa)}
        max_range_end == IF ends = {} THEN 0
                         ELSE CHOOSE e \in ends : \A f \in ends : f <= e
        start_from == IF max_range_end > highest + 1 THEN max_range_end
                      ELSE highest + 1
    IN IF Cardinality(NeedsAssignment(wa)) < WORK_BUFFER_SIZE \div 2
       THEN generate_work_frontier_internal(wa, start_from, WORK_BUFFER_SIZE, t)
       ELSE wa

\* available_workers.get(w, {}).get('user_id')
UserOf(aw, w) == IF w \in DOMAIN aw THEN aw[w].user_id ELSE None

\* the inner loop of randomly_assign_workers_to_ranges: n more tries to give
\* the assignment id a worker popped from the shuffled list free
RECURSIVE AssignWorkers(_, _, _, _, _)
AssignWorkers(st, free, id, n, t) ==
    IF n = 0 \/ free = <<>> THEN [st |-> st, free |-> free]
    ELSE LET worker_id == Head(free)
             assignment == st.wa[id]
             worker_user_id == UserOf(st.aw, worker_id)
             user_already_assigned ==
                 /\ worker_user_id # None
                 /\ \E i \in DOMAIN assignment.assigned_workers :
                       UserOf(st.aw, assignment.assigned_workers[i]) = worker_user_id
             creator_workers_count ==
                 Cardinality({i \in DOMAIN assignment.assigned_workers :
                     UserOf(st.aw, assignment.assigned_workers[i]) =
                         assignment.creator_user_id})
             creator_skip ==
                 /\ assignment.creator_user_id # None
                 /\ worker_user_id = assignment.creator_user_id
                 /\ \/ creator_workers_count >= 1
                    \/ Len(assignment.assigned_workers) - creator_workers_count = 0
             assigned == Append(assignment.assigned_workers, worker_id)
         IN IF user_already_assigned \/ creator_skip
            THEN AssignWorkers(st, Tail(free), id, n - 1, t)
            ELSE AssignWorkers(
                    [st EXCEPT
                        !.wa = [st.wa EXCEPT ![id] =
                            [assignment EXCEPT
                                !.assigned_workers = assigned,
                                !.timeout_at = t + WORK_TIMEOUT_SECONDS,
                                !.status = IF Len(assigned) >= assignment.redundancy_factor
                                           THEN "in_progress" ELSE assignment.status]],
                        !.wasg = (worker_id :> id) @@ st.wasg],
                    Tail(free), id, n - 1, t)

\* the outer loop over the shuffled list needs of assignments
RECURSIVE AssignRanges(_, _, _, _)
AssignRanges(st, free, needs, t) ==
    IF needs = <<>> THEN st
    ELSE LET id == Head(needs)
             needed == st.wa[id].redundancy_factor - Len(st.wa[id].assigned_workers)
             out == AssignWorkers(st, free, id, needed, t)
         IN IF needed <= 0 THEN AssignRanges(st, free, Tail(needs), t)
            ELSE AssignRanges(out.st, out.free, Tail(needs), t)

\* IPFSCoordinator.randomly_assign_workers_to_ranges for one outcome of the
\* two shuffles
FreeWorkers(st) == DOMAIN st.aw \ DOMAIN st.wasg

randomly_assign_workers_to_ranges(st, free_workers, needs_assignment, t) ==
    AssignRanges(st, free_workers, needs_assignment, t)

\* what claim_work returns for worker_id after the scheduling pass (the id
\* of its assignment, << >> for None), and the worker_assignments it leaves
ClaimReturn(st, worker_id) ==
    IF worker_id \notin DOMAIN st.wasg THEN [wasg |-> st.wasg, id |-> <<>>]
    ELSE IF st.wasg[worker_id] \notin DOMAIN st.wa
            \/ ~InSeq(worker_id, st.wa[st.wasg[worker_id]].assigned_workers)
    THEN [wasg |-> Without(st.wasg, worker_id), id |-> <<>>]
    ELSE [wasg |-> st.wasg, id |-> st.wasg[worker_id]]

\* IPFSCoordinator.claim_work(worker_id, user_id): heartbeat and eviction,
\* work generation, one scheduling pass, then the look-up of the caller's
\* assignment.  (The gossip round inside it is the step merge_peer_state.)
claim_work(worker_id, user_id) ==
    /\ nops < MaxRegistryOps
    /\ nops' = nops + 1
    /\ \E st1 \in {register_worker_availability(
                      [aw |-> available_workers, wa |-> work_assignments,
                       wasg |-> worker_assignments],
                      worker_id, user_id, clock)} :
       \E st2 \in {[st1 EXCEPT !.wa = auto_generate_work_if_needed(st1.wa,
                                          global_highest_proven, clock)]} :
       \E free_workers \in Shuffles(FreeWorkers(st2)),
          needs_assignment \in Shuffles(NeedsAssignment(st2.wa)) :
       \E st3 \in {randomly_assign_workers_to_ranges(st2, free_workers,
                      needs_assignment, clock)} :
       \E ret \in {ClaimReturn(st3, worker_id)} :
          /\ available_workers' = st3.aw
          /\ work_assignments' = st3.wa
          /\ worker_assignments' = ret.wasg
          /\ last_call' = [op |-> "claim_work", worker |-> worker_id,
                           returned |-> ret.id]
    /\ ledger_idle
    /\ UNCHANGED <<workers, verification_proofs, global_highest_proven,
                   progress_consensus, clock, handler_vars>>

\* the variant of mark_conflict that raises the redundancy and leaves the
\* status as it is
mark_conflict_KeepStatus(assignment_id) ==
    /\ nops < MaxRegistryOps
    /\ nops' = nops + 1
    /\ assignment_id \in DOMAIN work_assignments
    /\ work_assignments' = [work_assignments EXCEPT ![assignment_id] =
          [@ EXCEPT !.redundancy_factor = @ + 2]]
    /\ last_call' = [op |-> "mark_conflict"]
    /\ ledger_idle
    /\ UNCHANGED <<workers, verification_proofs, global_highest_proven,
                   worker_assignments, progress_consensus, clock,
                   available_workers, handler_vars>>

\* IPFSCoordinator.mark_conflict
mark_conflict(assignment_id) ==
    /\ nops < MaxRegistryOps
    /\ nops' = nops + 1
    /\ assignment_id \in DOMAIN work_assignments
    /\ work_assignments' = [work_assignments EXCEPT ![assignment_id] =
          [@ EXCEPT !.status = "conflict",
                    !.redundancy_factor = @ + 2]]
    /\ last_call' = [op |-> "mark_conflict"]
    /\ ledger_idle
    /\ UNCHANGED <<workers, verification_proofs, global_highest_proven,
                   worker_assignments, progress_consensus, clock,
                   available_workers, handler_vars>>

\* time passes between calls
Sleep ==
    /\ clock' \in {t \in RegistryTimes : t > clock}
    /\ UNCHANGED <<build, owner, workers, pending_consensus,
                   pending_cross_checks, last_call, escalated, nops,
                   work_assignments, verification_proofs,
                   global_highest_proven, worker_assignments,
                   progress_consensus, available_workers, handler_vars>>

\* worker w was given assignment id and has not sent its proof yet (a
\* worker evicted while verifying still sends it)
Holds(w, id) ==
    /\ InSeq(w, work_assignments[id].assigned_workers)
    /\ ~InSeq(w, work_assignments[id].completed_workers)
    /\ w \in DOMAIN worker_assignments => worker_assignments[w] = id

\* the worker program that passes user accounts to claim_work is that of
\* build/lib
\* a peer on which two workers have verified the first range and the third
\* place is still open
PartialPeerState ==
    PeerState(0,
              {[PeerFirstRange EXCEPT !.assigned_workers = <<"P", "Q">>,
                                      !.completed_workers = <<"P", "Q">>,
                                      !.status = "available"]},
              {VerificationProof(w, PeerFirstRange, TRUE, Now - 300) :
                    w \in {"P", "Q"}})

RegistryPeers == {HonestPeerState, PartialPeerState}

RegistryInit ==
    /\ build = "lib"
    /\ owner = RegistryOwner
    /\ workers = CleanDatabase
    /\ pending_consensus = [r \in Ranges |-> NoState]
    /\ pending_cross_checks = [r \in Ranges |-> <<>>]
    /\ last_call = NoCall
    /\ escalated = [r \in Ranges |-> 0]
    /\ nops = 0
    /\ CoordinatorInit

RegistryNext ==
    \/ Sleep
    \/ \E w \in RegistryWorkers : claim_work(w, owner[w])
    \/ \E w \in RegistryWorkers, id \in DOMAIN work_assignments :
          /\ nops < MaxRegistryOps
          /\ Holds(w, id)
          /\ submit_verification_proof(w, id, TRUE)
    \/ \E id \in DOMAIN work_assignments :
          /\ Len(work_assignments[id].completed_workers) >= 2
          /\ mark_conflict(id)
    \/ \E peer_state \in RegistryPeers :
          /\ nops < MaxRegistryOps
          /\ merge_peer_state(peer_state)

RegistrySpec == RegistryInit /\ [][RegistryNext]_vars

(***************************************************************************)
(* Properties of the scheduler.                                            *)
(***************************************************************************)
\* the account a worker runs under; the workers of other nodes (P, Q, R)
\* each have their own
AccountOf(w) == IF w \in DOMAIN owner THEN owner[w] ELSE w

\* the workers in the assigned or completed list of assignment a
Members(a) ==
    {a.assigned_workers[i] : i \in DOMAIN a.assigned_workers}
        \cup {a.completed_workers[i] : i \in DOMAIN a.completed_workers}

\* the accounts that have a worker in the available pool
AvailableUsers == {available_workers[w].user_id : w \in DOMAIN available_workers}

\* C13: in every reachable state, for every assignment, no two workers of its
\* assigned/completed sets run under the same user while the available pool
\* holds workers of at least redundancy_factor distinct users, and at most
\* one of them runs under the assignment's creator.
C13_UserDiversity ==
    \A id \in DOMAIN work_assignments :
        LET a == work_assignments[id]
        IN /\ Cardinality(AvailableUsers) >= a.redundancy_factor =>
                 \A w1, w2 \in Members(a) :
                     AccountOf(w1) = AccountOf(w2) => w1 = w2
           /\ Cardinality({w \in Members(a) :
                              AccountOf(w) = a.creator_user_id}) <= 1

StaleAt(worker_id) ==
    {wid \in DOMAIN available_workers \ {worker_id} :
        clock - available_workers[wid].timestamp > STALE_SECONDS}

\* C15: when the heartbeat of a claim_work call evicts a worker whose last
\* heartbeat is more than 5 minutes old, the worker is removed from
\* available_workers, from worker_assignments and from the assigned_workers
\* of the assignment it held, so that the place is free for another worker.
C15_EvictionFreesClaim ==
    [][CallOf("claim_work") =>
          \A wid \in StaleAt(last_call'.worker) :
              /\ wid \notin DOMAIN available_workers'
              /\ wid \notin DOMAIN worker_assignments'
              /\ (/\ wid \in DOMAIN worker_assignments
                  /\ worker_assignments[wid] \in DOMAIN work_assignments)
                    => ~InSeq(wid, work_assignments'[worker_assignments[wid]]
                                       .assigned_workers)]_vars

\* the assignments on which worker w is listed as assigned and has not
\* completed
ActiveAssignments(w) ==
    {id \in DOMAIN work_assignments :
        /\ InSeq(w, work_assignments[id].assigned_workers)
        /\ ~InSeq(w, work_assignments[id].completed_workers)}

\* C17: each worker has at most one active assignment at any time: it is an
\* uncompleted member of the assigned_workers of at most one assignment, and
\* the assignment worker_assignments gives it is that one.
C17_OneActiveAssignment ==
    \A w \in DOMAIN owner :
        /\ Cardinality(ActiveAssignments(w)) <= 1
        /\ w \in DOMAIN worker_assignments =>
              ActiveAssignments(w) \subseteq {worker_assignments[w]}

\* The scheduler with three workers of three users and no peers.  The
\* worker programs call claim_work in a loop and time passes: the scheduler
\* keeps being entered for as long as calls remain.
TimeoutWorkers == {"A1", "B", "C"}

TimeoutNext ==
    \/ Sleep
    \/ \E w \in TimeoutWorkers : claim_work(w, owner[w])
    \/ \E w \in TimeoutWorkers, id \in DOMAIN work_assignments :
          /\ nops < MaxRegistryOps
          /\ Holds(w, id)
          /\ submit_verification_proof(w, id, TRUE)

TimeoutSpec ==
    /\ RegistryInit
    /\ [][TimeoutNext]_vars
    /\ WF_vars(Sleep)
    /\ WF_vars(\E w \in TimeoutWorkers : claim_work(w, owner[w]))

\* the assignments that can be past their timeout_at at the last reading of
\* the clock: those that workers were assigned to at the start
ExpirableIds ==
    {generate_assignment_id(1, 1 + RANGE_SIZE, Now),
     generate_assignment_id(1 + RANGE_SIZE, 1 + 2 * RANGE_SIZE, Now)}

\* assignment id is in_progress and its timeout_at has passed
Expired(id) ==
    /\ id \in DOMAIN work_assignments
    /\ work_assignments[id].status = "in_progress"
    /\ clock > work_assignments[id].timeout_at

\* assignment id is available again and no worker holds a claim on it
Reverted(id) ==
    /\ id \in DOMAIN work_assignments
    /\ work_assignments[id].status = "available"
    /\ \A w \in DOMAIN worker_assignments : worker_assignments[w] # id
    /\ \A i \in DOMAIN work_assignments[id].assigned_workers :
          InSeq(work_assignments[id].assigned_workers[i],
                work_assignments[id].completed_workers)

MaxHandlerOps == 6
VOTING_HOURS == 24

\* the proofs sorted by timestamp (the timestamps of one node are distinct)
RECURSIVE SortedByTime(_)
SortedByTime(S) ==
    IF S = {} THEN <<>>
    ELSE LET first == CHOOSE p \in S : \A q \in S : p.timestamp <= q.timestamp
         IN <<first>> \o SortedByTime(S \ {first})

\* CounterexampleCoordinator.check_for_counterexample: << >> for None, else
\* the one record it returns.  The dicts it is given are asdict() of the
\* coordinator's VerificationProof, which has no user_id: every user reads as
\* 'anonymous'.
check_for_counterexample(assignment_id, proofs, t) ==
    LET counterexample_proofs ==
            SortedByTime({p \in proofs : ~p.all_converged})
        first_proof == counterexample_proofs[1]
    IN IF Len(counterexample_proofs) < 3 THEN <<>>
       ELSE <<[counterexample_number |-> first_proof.range_start,
               discovered_by_worker |-> first_proof.worker_id,
               discovered_by_user |-> "anonymous",
               discovered_at |-> first_proof.timestamp,
               first_verifiers |->
                   [i \in 1..2 |->
                       <<counterexample_proofs[i + 1].worker_id, "anonymous">>],
               verification_count |-> Len(counterexample_proofs),
               range_start |-> first_proof.range_start,
               range_end |-> first_proof.range_end,
               assignment_id |-> assignment_id,
               consensus_reached_at |-> t]>>

\* IPFSCoordinator.get_proofs_for_assignment
get_proofs_for_assignment(vp, assignment_id) ==
    {p \in Values(vp) : p.assignment_id = assignment_id}

\* DistributedCollatzWorker.claim_and_verify_work from the submission of the
\* result to the vote prompt: submit_verification_proof on the coordinator,
\* the verdict consensus_reached of submit_for_consensus (an input here), and
\* on a confirmed non-convergence check_for_counterexample,
\* broadcast_counterexample_found and start_voting.  One second passes.
report_result(w, assignment_id, all_converged, consensus_reached) ==
    LET assignment == work_assignments[assignment_id]
        proof == VerificationProof(w, assignment, all_converged, clock)
        completed_workers ==
            IF InSeq(w, assignment.completed_workers)
            THEN assignment.completed_workers
            ELSE Append(assignment.completed_workers, w)
        proofs == (proof.proof_id :> proof) @@ verification_proofs
        counterexample ==
            IF consensus_reached /\ ~all_converged
            THEN check_for_counterexample(assignment_id,
                     get_proofs_for_assignment(proofs, assignment_id), clock)
            ELSE <<>>
    IN /\ nops < MaxHandlerOps
       /\ nops' = nops + 1
       /\ clock' = clock + 1
       /\ verification_proofs' = proofs
       /\ work_assignments' = [work_assignments EXCEPT ![assignment_id] =
             [assignment EXCEPT
                !.completed_workers = completed_workers,
                !.status = IF Len(completed_workers) >= assignment.redundancy_factor
                           THEN "completed" ELSE assignment.status]]
       /\ worker_assignments' = Without(worker_assignments, w)
       /\ counterexample_data' = counterexample_data \o counterexample
       /\ IF counterexample # <<>>
          THEN /\ voting_active' = TRUE
               /\ voting_deadline' = clock + VOTING_HOURS * 3600
               /\ votes_continue' = EmptyMap
          ELSE UNCHANGED <<voting_active, voting_deadline, votes_continue>>
       /\ last_call' = [op |-> "report_result", worker |-> w,
                        assignment_id |-> assignment_id,
                        all_converged |-> all_converged,
                        consensus_reached |-> consensus_reached]
       /\ ledger_idle
       /\ UNCHANGED <<workers, global_highest_proven, progress_consensus,
                      available_workers>>

\* the variant of check_voting_result that compares the counts, not the
\* percentages, with 50
check_voting_result_Counts(votes) ==
    LET total_votes == Cardinality(DOMAIN votes)
        votes_to_continue == Cardinality({w \in DOMAIN votes : votes[w]})
        votes_to_shutdown == total_votes - votes_to_continue
    IN /\ total_votes > 0
       /\ \/ votes_to_continue > 50
          \/ votes_to_shutdown > 50

\* CounterexampleCoordinator.check_voting_result on the votes cast: whether a
\* decision is reached (the percentages are compared as fractions)
check_voting_result(votes) ==
    LET total_votes == Cardinality(DOMAIN votes)
        votes_to_continue == Cardinality({w \in DOMAIN votes : votes[w]})
        votes_to_shutdown == total_votes - votes_to_continue
    IN /\ total_votes > 0
       /\ \/ votes_to_continue * 100 > 50 * total_votes
          \/ votes_to_shutdown * 100 > 50 * total_votes

\* the variant of submit_vote that records the vote and leaves the vote open
submit_vote_KeepOpen(worker_id, vote_continue) ==
    LET votes == (worker_id :> vote_continue) @@ votes_continue
    IN /\ nops < MaxHandlerOps
       /\ nops' = nops + 1
       /\ IF ~voting_active
          THEN /\ UNCHANGED <<voting_active, votes_continue>>
               /\ last_call' = [op |-> "submit_vote", worker |-> worker_id,
                                accepted |-> FALSE, decided |-> FALSE]
          ELSE IF clock > voting_deadline
          THEN /\ voting_active' = FALSE
               /\ UNCHANGED votes_continue
               /\ last_call' = [op |-> "submit_vote", worker |-> worker_id,
                                accepted |-> FALSE, decided |-> FALSE]
          ELSE /\ votes_continue' = votes
               /\ UNCHANGED voting_active
               /\ last_call' = [op |-> "submit_vote", worker |-> worker_id,
                                accepted |-> TRUE, decided |-> FALSE]
       /\ ledger_idle
       /\ UNCHANGED <<workers, work_assignments, verification_proofs,
                      global_highest_proven, worker_assignments,
                      progress_consensus, clock, available_workers,
                      counterexample_data, voting_deadline>>

\* the variant of submit_vote without the deadline test
submit_vote_NoDeadline(worker_id, vote_continue) ==
    LET votes == (worker_id :> vote_continue) @@ votes_continue
        decided == check_voting_result(votes)
    IN /\ nops < MaxHandlerOps
       /\ nops' = nops + 1
       /\ IF ~voting_active
          THEN /\ UNCHANGED <<voting_active, votes_continue>>
               /\ last_call' = [op |-> "submit_vote", worker |-> worker_id,
                                accepted |-> FALSE, decided |-> FALSE]
          ELSE /\ votes_continue' = votes
               /\ voting_active' = ~decided
               /\ last_call' = [op |-> "submit_vote", worker |-> worker_id,
                                accepted |-> TRUE, decided |-> decided]
       /\ ledger_idle
       /\ UNCHANGED <<workers, work_assignments, verification_proofs,
                      global_highest_proven, worker_assignments,
                      progress_consensus, clock, available_workers,
                      counterexample_data, voting_deadline>>

\* CounterexampleCoordinator.submit_vote
submit_vote(worker_id, vote_continue) ==
    LET votes == (worker_id :> vote_continue) @@ votes_continue
    IN /\ nops < MaxHandlerOps
       /\ nops' = nops + 1
       /\ IF ~voting_active
          THEN /\ UNCHANGED <<voting_active, votes_continue>>
               /\ last_call' = [op |-> "submit_vote", worker |-> worker_id,
                                accepted |-> FALSE, decided |-> FALSE]
          ELSE IF clock > voting_deadline
          THEN /\ voting_active' = FALSE
               /\ UNCHANGED votes_continue
               /\ last_call' = [op |-> "submit_vote", worker |-> worker_id,
                                accepted |-> FALSE, decided |-> FALSE]
          ELSE /\ votes_continue' = votes
               /\ voting_active' = ~check_voting_result(votes)
               /\ last_call' = [op |-> "submit_vote", worker |-> worker_id,
                                accepted |-> TRUE,
                                decided |-> check_voting_result(votes)]
       /\ ledger_idle
       /\ UNCHANGED <<workers, work_assignments, verification_proofs,
                      global_highest_proven, worker_assignments,
                      progress_consensus, clock, available_workers,
                      counterexample_data, voting_deadline>>

\* the voting deadline passes
PassDeadline ==
    /\ voting_active
    /\ clock <= voting_deadline
    /\ clock' = voting_deadline + 1
    /\ UNCHANGED <<build, owner, workers, pending_consensus,
                   pending_cross_checks, last_call, escalated, nops,
                   work_assignments, verification_proofs,
                   global_highest_proven, worker_assignments,
                   progress_consensus, available_workers, handler_vars>>

HandlerNext ==
    \/ /\ work_assignments = EmptyMap
       /\ generate_work_frontier(1)
    \/ \E w \in RegistryWorkers, id \in DOMAIN work_assignments,
          all_converged \in BOOLEAN, consensus_reached \in BOOLEAN :
          /\ ~InSeq(w, work_assignments[id].completed_workers)
          /\ report_result(w, id, all_converged, consensus_reached)
    \/ \E w \in RegistryWorkers, vote_continue \in BOOLEAN :
          submit_vote(w, vote_continue)
    \/ PassDeadline

HandlerSpec == RegistryInit /\ [][HandlerNext]_vars

(***************************************************************************)
(* Properties of the counterexample handler.                               *)
(***************************************************************************)
\* the reports of non-convergence for assignment id, in submission order
FalseReports(id) ==
    SortedByTime({p \in get_proofs_for_assignment(verification_proofs, id) :
                     ~p.all_converged})

\* the workers of the reports in seq, in order, whose account is not in used
\* and differs from that of every worker taken before: at most n of them
RECURSIVE IndependentOf(_, _, _)
IndependentOf(seq, used, n) ==
    IF n = 0 \/ seq = <<>> THEN <<>>
    ELSE IF AccountOf(Head(seq).worker_id) \in used
    THEN IndependentOf(Tail(seq), used, n)
    ELSE <<Head(seq).worker_id>> \o
            IndependentOf(Tail(seq), used \cup {AccountOf(Head(seq).worker_id)},
                          n - 1)

\* the records created for assignment id
RecordsFor(id) ==
    LET ForId(r) == r.assignment_id = id
    IN SelectSeq(counterexample_data, ForId)

\* non-convergence of assignment id has just been reported with consensus,
\* and workers of three distinct users have reported it
ConfirmedByThreeUsers(id) ==
    /\ last_call.op = "report_result"
    /\ last_call.assignment_id = id
    /\ last_call.consensus_reached
    /\ ~last_call.all_converged
    /\ Cardinality({AccountOf(FalseReports(id)[i].worker_id) :
                       i \in DOMAIN FalseReports(id)}) >= 3

\* C18: (Scenario 5) when workers of three distinct users have reported
\* converged=false for the same range and consensus is reached, exactly one
\* counterexample record exists for the range, however many submissions came
\* before; it names the earliest reporter as discoverer and, as first
\* verifiers, the next two reporters in submission order that are independent
\* of the discoverer and of each other.
C18_Scenario5 ==
    \A id \in DOMAIN work_assignments :
        ConfirmedByThreeUsers(id) =>
            LET reports == FalseReports(id)
                records == RecordsFor(id)
            IN /\ Len(records) = 1
               /\ records[1].discovered_by_worker = reports[1].worker_id
               /\ <<records[1].first_verifiers[1][1],
                    records[1].first_verifiers[2][1]>> =
                     IndependentOf(Tail(reports),
                                   {AccountOf(reports[1].worker_id)}, 2)

StrictMajority(votes) ==
    \E choice \in BOOLEAN :
        2 * Cardinality({w \in DOMAIN votes : votes[w] = choice})
            > Cardinality(DOMAIN votes)

ActiveNodes ==
    DOMAIN available_workers
        \cup {verification_proofs[p].worker_id : p \in DOMAIN verification_proofs}

\* C21: the continue/shutdown decision is reached only when one option holds
\* the votes of more than 50% of the active nodes; votes from a smaller share
\* of the active nodes never close the vote.
C21_MajorityOfActiveNodes ==
    [][(CallOf("submit_vote") /\ last_call'.decided) =>
          \E choice \in BOOLEAN :
              2 * Cardinality({w \in DOMAIN votes_continue' :
                                  votes_continue'[w] = choice})
                  > Cardinality(ActiveNodes)]_vars

\* a vote has been started and its deadline has passed
DeadlinePassed == counterexample_data # <<>> /\ clock > voting_deadline

MaxTierOps == 3

TierWorkers == {"A", "B", "C"}
TierRange == <<1, 1000>>

\* the histories of A: total verifications submitted, of which incorrect
\* were resolved incorrect, the last streak of them in a row
TierHistories ==
    {h \in [total : {18, 19, 24}, incorrect : 0..4, streak : {0, 2, 3}] :
        h.streak <= h.incorrect}

\* the WorkerStats of a history: 14 verifications were resolved correct, and
\* the reputation dates from the last of the resolutions
TierStats(u, h) ==
    LET stats == [StoredStats(u, h.total, 14, h.incorrect, "VERIFIED",
                              IF h.streak = 0 THEN 14 ELSE 0)
                     EXCEPT !.consecutive_incorrect = h.streak]
    IN [stats EXCEPT !.reputation_score =
           calculate_reputation(
               [stats EXCEPT !.total_verifications = 14 + h.incorrect], Now)]

TierDatabase(h) ==
    [w \in Workers |->
        IF w = "A" THEN TierStats(ScenarioOwner[w], h)
        ELSE IF w = "B"
        THEN StoredStats(ScenarioOwner[w], 1000, 1000, 0, "ELITE", 1000)
        ELSE NoStats]

TierInit ==
    /\ build \in {"src", "lib"}
    /\ owner = ScenarioOwner
    /\ workers \in {TierDatabase(h) : h \in TierHistories}
    /\ pending_consensus = [r \in Ranges |-> NoState]
    /\ pending_cross_checks = [r \in Ranges |-> <<>>]
    /\ last_call = NoCall
    /\ escalated = [r \in Ranges |-> 0]
    /\ nops = 0
    /\ CoordinatorInit

TierNext ==
    \/ /\ build = "lib"
       /\ \E w \in TierWorkers, conv \in BOOLEAN :
             CallSubmitVerification(w, TierRange, conv, MaxTierOps)
    \/ /\ build = "src"
       /\ nops < MaxTierOps
       /\ \E w \in TierWorkers, conv \in BOOLEAN :
             submit_for_consensus(HonestProof(w, TierRange, conv))
    \/ /\ nops < MaxTierOps
       /\ \E correct_result \in BOOLEAN :
             resolve_conflict_with_independent_verification(TierRange,
                                                            correct_result)

TierSpec == TierInit /\ [][TierNext]_vars

(***************************************************************************)
(* Properties of the tiers.                                                *)
(***************************************************************************)
\* the ban conditions of update_trust_level
BanCondition(stats) ==
    /\ stats.total_verifications >= 20
    /\ \/ 10 * stats.incorrect_verifications > stats.total_verifications
       \/ stats.consecutive_incorrect >= 3

\* the step evaluated the tier of w: it marked a verification of w correct
\* or incorrect
TierEvaluated(w) ==
    /\ workers'[w].registered
    /\ \/ ~workers[w].registered
          /\ workers'[w].correct_verifications
                + workers'[w].incorrect_verifications > 0
       \/ /\ workers[w].registered
          /\ \/ workers'[w].correct_verifications
                   # workers[w].correct_verifications
             \/ workers'[w].incorrect_verifications
                   # workers[w].incorrect_verifications

\* the trust level of w, UNTRUSTED when w is not yet in the ledger
LevelOf(ws, w) == IF ws[w].registered THEN ws[w].trust_level ELSE "UNTRUSTED"

\* C23: whenever the tier of a non-banned worker is evaluated with
\* total_verifications >= 20 and (incorrect/total > 10% or
\* consecutive_incorrect >= 3), the result is BANNED even if the correct
\* count meets a promotion threshold; a worker with 25 verifications of which
\* 4 are incorrect becomes BANNED.
C23_BanDominatesPromotion ==
    [][\A w \in Workers :
          /\ (TierEvaluated(w) /\ BanCondition(workers'[w]))
                => workers'[w].trust_level = "BANNED"
          /\ \A level \in TrustLevel \ {"BANNED"} :
                update_trust_level(
                    [StoredStats(None, 25, 21, 4, level, 0)
                        EXCEPT !.consecutive_incorrect = 0]).trust_level
                    = "BANNED"]_vars

\* A, with 25 verifications, 4 of them incorrect, and a correct count above
\* the VERIFIED threshold, was rewarded for a consensus and is BANNED
C23_Witness ==
    /\ LastSubmission("consensus")
    /\ workers["A"].total_verifications = 25
    /\ workers["A"].incorrect_verifications = 4
    /\ workers["A"].correct_verifications = 15
    /\ workers["A"].trust_level = "BANNED"

(***************************************************************************)
(* Ban specification: the ledger starts from a database with a banned      *)
(* worker B (banned for an invalid proof, its counters clean), a TRUSTED   *)
(* worker A and two workers C and D with errors on record.  Workers        *)
(* register again, submit verifications, conflicts are resolved, and       *)
(* progress claims run the Byzantine countermeasures.                      *)
(***************************************************************************)
\* calls made in one behaviour of the ban specification
MaxBanOps == 4

BanWorkers == {"A", "B", "C", "D"}

BanDatabase ==
    [w \in Workers |->
        IF w = "A" THEN StoredStats(ScenarioOwner[w], 100, 100, 0, "TRUSTED", 100)
        ELSE IF w = "B" THEN StoredStats(ScenarioOwner[w], 30, 30, 0, "BANNED", 30)
        ELSE IF w = "C" THEN StoredStats(ScenarioOwner[w], 12, 10, 2, "VERIFIED", 0)
        ELSE IF w = "D" THEN StoredStats(ScenarioOwner[w], 12, 8, 2, "UNTRUSTED", 0)
        ELSE NoStats]

\* a peer that has verified the first range and has not yet claimed it as
\* its frontier
WorkedPeerState ==
    PeerState(0, HonestPeerState.work_assignments,
              HonestPeerState.verification_proofs)

BanInit ==
    /\ build \in {"src", "lib"}
    /\ owner = ScenarioOwner
    /\ workers = BanDatabase
    /\ pending_consensus = [r \in Ranges |-> NoState]
    /\ pending_cross_checks = [r \in Ranges |-> <<>>]
    /\ last_call = NoCall
    /\ escalated = [r \in Ranges |-> 0]
    /\ nops = 0
    /\ CoordinatorInit

BanNext ==
    /\ nops < MaxBanOps
    /\ \/ \E w \in BanWorkers : CallRegisterWorker(w)
       \/ /\ build = "lib"
          /\ \E w \in BanWorkers, conv \in BOOLEAN :
                CallSubmitVerification(w, TierRange, conv, MaxBanOps)
       \/ /\ build = "src"
          /\ \E w \in BanWorkers, conv \in BOOLEAN :
                submit_for_consensus(HonestProof(w, TierRange, conv))
       \/ \E w \in BanWorkers :
             submit_for_consensus([HonestProof(w, TierRange, TRUE)
                                      EXCEPT !.all_converged = FALSE])
       \/ \E correct_result \in BOOLEAN :
             resolve_conflict_with_independent_verification(TierRange,
                                                            correct_result)
       \/ merge_peer_state(WorkedPeerState)
       \/ \E w \in BanWorkers :
             submit_progress_claim(w, owner[w], 1 + RANGE_SIZE)

BanSpec == BanInit /\ [][BanNext]_vars

\* C24: BANNED is terminal: once a worker's tier is BANNED, no later ledger
\* operation (consensus reward, resolve_conflict, update_trust_level,
\* Byzantine countermeasures, re-registration) changes it to another tier.
C24_BannedIsTerminal ==
    [][\A w \in Workers :
          (workers[w].registered /\ workers[w].trust_level = "BANNED")
              => /\ workers'[w].registered
                 /\ workers'[w].trust_level = "BANNED"]_vars

\* the banned worker B has been rewarded for a verification and is BANNED
C24_Witness ==
    /\ workers["B"].correct_verifications > BanDatabase["B"].correct_verifications
    /\ workers["B"].trust_level = "BANNED"

\* the step is a submission of worker w for range r
SubmissionOf(w, r) ==
    /\ nops' = nops + 1
    /\ last_call'.op \in {"submit_verification", "submit_for_consensus"}
    /\ last_call'.worker = w
    /\ last_call'.msg \notin {"validation_failed", "TypeError"}
    /\ last_call'.rng = r

\* C25: a consensus state is created with the table value of the first
\* submitter's tier as required_confirmations; later submissions do not
\* change it (a conflict apart); with unanimous results the range resolves on
\* exactly the submission with which the accepted count reaches that value,
\* and not before: for a range opened by an ELITE worker, on its first
\* submission.
C25_RequiredFromOpener ==
    [][\A w \in Workers, r \in Ranges :
          SubmissionOf(w, r) =>
             LET before == pending_consensus[r]
                 after == pending_consensus'[r]
                 accepted == Len(after.confirmations) > Len(ConfsOf(pending_consensus, r))
             IN /\ after.pending
                /\ ~before.pending =>
                      after.required_confirmations
                         = CONSENSUS_REQUIREMENTS(LevelOf(workers, w))
                /\ (before.pending /\ last_call'.msg # "conflict") =>
                      after.required_confirmations = before.required_confirmations
                /\ (accepted /\ Unanimous(after.confirmations)) =>
                      /\ Len(after.confirmations) = after.required_confirmations
                            => (after.consensus_reached /\ last_call'.ok)
                      /\ Len(after.confirmations) < after.required_confirmations
                            => (~after.consensus_reached /\ ~last_call'.ok)]_vars

(***************************************************************************)
(* Creation specification: requests to create a work assignment, made on   *)
(* behalf of users of every tier, of a user without workers and of nobody. *)
(***************************************************************************)
\* requests made in one behaviour of the creation specification
MaxCreateOps == 2

\* size_limits of can_user_create_work_assignments; ELITE has no limit
WithinSizeLimit(level, assignment_size) ==
    CASE level = "UNTRUSTED" -> assignment_size <= 10000
      [] level = "VERIFIED"  -> assignment_size <= 100000
      [] level = "TRUSTED"   -> assignment_size <= 1000000
      [] level = "ELITE"     -> TRUE
      [] OTHER               -> assignment_size <= 0

\* max(user_workers, key=lambda x: x.trust_level.value).trust_level
HighestTrust(ws, user_workers) ==
    ws[CHOOSE w \in user_workers :
          \A v \in user_workers :
              LevelValue(ws[w].trust_level) >= LevelValue(ws[v].trust_level)
      ].trust_level

\* TrustSystem.can_user_create_work_assignments of the lib ledger
can_user_create_work_assignments(ws, user_id, assignment_size) ==
    LET user_workers == {w \in StatsOf(ws) : ws[w].user_id = user_id}
        banned_workers == {w \in user_workers : ws[w].trust_level = "BANNED"}
    IN /\ user_id # None
       /\ user_workers # {}
       /\ banned_workers = {}
       /\ WithinSizeLimit(HighestTrust(ws, user_workers), assignment_size)

\* IPFSCoordinator.create_work_assignment_internal called with a creator
\* (None: no creator, as the legacy create_work_assignment calls it).  The
\* ledger of the src build has no can_user_create_work_assignments.
CallCreateWorkAssignment(range_start, range_end, creator_user_id) ==
    LET assignment_size == range_end - range_start
        a == [WorkAssignment(range_start, range_end, clock)
                 EXCEPT !.creator_user_id = creator_user_id]
        answer(granted, why) ==
            last_call' = [op |-> "create_work_assignment",
                          creator |-> creator_user_id,
                          size |-> assignment_size,
                          granted |-> granted, msg |-> why]
    IN /\ nops < MaxCreateOps
       /\ nops' = nops + 1
       /\ ledger_idle
       /\ UNCHANGED <<workers, verification_proofs, global_highest_proven,
                      worker_assignments, progress_consensus, clock,
                      available_workers, handler_vars>>
       /\ IF creator_user_id # None /\ build = "src"
          THEN answer(FALSE, "AttributeError") /\ UNCHANGED work_assignments
          ELSE IF /\ creator_user_id # None
                  /\ ~can_user_create_work_assignments(workers,
                          creator_user_id, assignment_size)
          THEN answer(FALSE, "trust") /\ UNCHANGED work_assignments
          ELSE /\ answer(TRUE, "created")
               /\ work_assignments' = (a.assignment_id :> a) @@ work_assignments

\* the users of the creation specification: one for each tier, one whose
\* second worker is banned, and u7, who has no worker
CreateOwner ==
    [w \in Workers |->
        CASE w = "A" -> "u1" [] w = "B" -> "u2" [] w = "C" -> "u3"
          [] w = "D" -> "u4" [] w = "E" -> "u5" [] w = "F" -> "u5"
          [] w = "G" -> "u6"]

CreateUsers == {"u1", "u2", "u3", "u4", "u5", "u6", "u7"}

\* A UNTRUSTED, B VERIFIED, C TRUSTED, D ELITE; u5 owns the VERIFIED E and
\* the TRUSTED F; G is banned
CreateDatabase ==
    [w \in Workers |->
        CASE w = "A" -> StoredStats(CreateOwner[w], 5, 5, 0, "UNTRUSTED", 5)
          [] w = "B" -> StoredStats(CreateOwner[w], 12, 12, 0, "VERIFIED", 12)
          [] w = "C" -> StoredStats(CreateOwner[w], 100, 100, 0, "TRUSTED", 100)
          [] w = "D" -> StoredStats(CreateOwner[w], 1000, 1000, 0, "ELITE", 1000)
          [] w = "E" -> StoredStats(CreateOwner[w], 12, 12, 0, "VERIFIED", 12)
          [] w = "F" -> StoredStats(CreateOwner[w], 100, 100, 0, "TRUSTED", 100)
          [] w = "G" -> StoredStats(CreateOwner[w], 30, 30, 0, "BANNED", 30)]

\* the sizes requested: the range size of the frontier, and each ceiling and
\* one more
CreateSizes == {RANGE_SIZE, 10000, 10001, 100000, 100001, 1000000, 1000001}

CreateInit ==
    /\ build \in {"src", "lib"}
    /\ owner = CreateOwner
    /\ workers = CreateDatabase
    /\ pending_consensus = [r \in Ranges |-> NoState]
    /\ pending_cross_checks = [r \in Ranges |-> <<>>]
    /\ last_call = NoCall
    /\ escalated = [r \in Ranges |-> 0]
    /\ nops = 0
    /\ CoordinatorInit

CreateNext ==
    \E size \in CreateSizes, creator_user_id \in CreateUsers \cup {None} :
        CallCreateWorkAssignment(1, 1 + size, creator_user_id)

CreateSpec == CreateInit /\ [][CreateNext]_vars

\* the best tier among the workers user_id owns, None when it owns none
BestOwnedTier(user_id) ==
    LET user_workers == {w \in StatsOf(workers) : workers[w].user_id = user_id}
    IN IF user_workers = {} THEN None ELSE HighestTrust(workers, user_workers)

\* C26: a request to create an assignment is granted only if the creator is
\* a non-anonymous user whose best owned worker's tier has a size ceiling of
\* at least the requested size; a request with no user id is rejected and
\* creates no assignment.
C26_CreationGate ==
    [][CallOf("create_work_assignment") =>
          /\ (last_call'.granted \/ work_assignments' # work_assignments) =>
                /\ last_call'.creator # None
                /\ WithinSizeLimit(BestOwnedTier(last_call'.creator),
                                   last_call'.size)
          /\ last_call'.creator = None =>
                /\ ~last_call'.granted
                /\ work_assignments' = work_assignments]_vars

\* the fields of a worker that a reward or a penalty writes
Standing(stats) ==
    IF stats.registered
    THEN <<stats.correct_verifications, stats.incorrect_verifications,
           stats.consecutive_correct, stats.consecutive_incorrect,
           stats.reputation_score, stats.trust_level>>
    ELSE <<0, 0, 0, 0, NoReputation, "UNTRUSTED">>

\* C27: a submission that triggers a conflict penalizes nobody: every
\* worker's incorrect_verifications, consecutive_incorrect,
\* consecutive_correct, correct_verifications, reputation and tier are
\* unchanged by that step; the error counters rise only in resolve_conflict.
C27_ConflictPenalizesNobody ==
    [][/\ (nops' = nops + 1 /\ last_call'.op \in {"submit_verification",
                 "submit_for_consensus"} /\ last_call'.msg = "conflict")
            => \A w \in Workers : Standing(workers'[w]) = Standing(workers[w])
       /\ (\E w \in Workers :
              \/ Standing(workers'[w])[2] > Standing(workers[w])[2]
              \/ Standing(workers'[w])[4] > Standing(workers[w])[4])
            => CallOf("resolve_conflict")]_vars

\* a submission has just triggered a conflict among workers with a history
C27_Witness ==
    /\ LastSubmission("conflict")
    /\ workers["A"].correct_verifications > 0
    /\ \E i, j \in DOMAIN pending_consensus[TierRange].confirmations :
          pending_consensus[TierRange].confirmations[i].all_converged
             # pending_consensus[TierRange].confirmations[j].all_converged

\* C28: gossip redelivery is harmless: merging the same peer snapshot a
\* second time with merge_peer_state leaves the local assignments, proofs
\* and frontier exactly as they were after the first merge.
C28_RedeliveryHarmless ==
    [][(/\ last_call.op = "merge_peer_state"
        /\ CallOf("merge_peer_state")
        /\ last_call'.peer_state_cid = last_call.peer_state_cid)
          => /\ work_assignments' = work_assignments
             /\ verification_proofs' = verification_proofs
             /\ global_highest_proven' = global_highest_proven]_vars

\* the snapshot of the honest peer, which brought an assignment, three
\* proofs and a new frontier, has been merged twice
C28_Witness ==
    /\ nops = 2
    /\ last_call.op = "merge_peer_state"
    /\ last_call.peer_state_cid = HonestPeerState
    /\ ~last_call.ok
    /\ PeerFirstRange.assignment_id \in DOMAIN work_assignments
    /\ global_highest_proven = HonestPeerState.global_highest_proven

(***************************************************************************)
(* Gossip specification: a node generates the first range, its workers     *)
(* verify it, and snapshots of peers arrive, some of them malformed.       *)
(***************************************************************************)
\* calls made in one behaviour of the gossip specification
MaxGossipOps == 4

\* the snapshot the peer published when only P had verified the first range
EarlyPeerState ==
    PeerState(0,
              {[PeerFirstRange EXCEPT !.assigned_workers = <<"P">>,
                                      !.completed_workers = <<"P">>,
                                      !.status = "available"]},
              {VerificationProof("P", PeerFirstRange, TRUE, Now - 300)})

\* the snapshots that arrive: the peer's at three moments of its work, and
\* the last of them cut short by an undecodable document, assignment record
\* or proof
\* record; in the snapshot cut at a proof record the first proof is decoded
GossipSnapshots ==
    {HonestPeerState, PartialPeerState, EarlyPeerState}
    \cup {MalformedPeerState(HonestPeerState, where) :
             where \in {"json", "assignment"}}
    \cup {MalformedPeerState(
             [HonestPeerState EXCEPT !.verification_proofs =
                 {VerificationProof("P", PeerFirstRange, TRUE, Now - 300)}],
             "proof")}
    \cup {MalformedPeerState(
             [HonestPeerState EXCEPT !.work_assignments = {}], "assignment")}

GossipNext ==
    /\ nops < MaxGossipOps
    /\ \/ generate_work_frontier(1)
       \/ \E w \in ProgressWorkers, id \in DOMAIN work_assignments :
             submit_verification_proof(w, id, TRUE)
       \/ \E peer_state \in GossipSnapshots : merge_peer_state(peer_state)

GossipSpec == RegistryInit /\ [][GossipNext]_vars

\* C29: if a peer snapshot is malformed (an assignment or proof record in it
\* cannot be decoded), merge_peer_state skips that peer's contribution as a
\* whole: local assignments, proofs and frontier are as before the attempt.
C29_MalformedSkipped ==
    [][(CallOf("merge_peer_state")
           /\ last_call'.peer_state_cid.undecodable # "none")
          => /\ work_assignments' = work_assignments
             /\ verification_proofs' = verification_proofs
             /\ global_highest_proven' = global_highest_proven]_vars

\* the step resolves range r: a submission for r reaches consensus, or the
\* conflict on r is resolved after independent verification
Resolves(r) ==
    /\ nops' = nops + 1
    /\ \/ /\ last_call'.op \in {"submit_verification", "submit_for_consensus"}
          /\ last_call'.msg = "consensus"
          /\ last_call'.rng = r
       \/ /\ last_call'.op = "resolve_conflict"
          /\ last_call'.rng = r

\* C30: when a range resolves (consensus reached in submit_verification, or
\* resolve_conflict), its consensus state is destroyed: the range is no
\* longer in pending_consensus, so that a later submission for the range
\* starts from a fresh state.
C30_DestroyedOnResolution ==
    [][\A r \in Ranges : Resolves(r) => ~pending_consensus'[r].pending]_vars

\* the workers of ledger ws that are not banned and were active in the 24
\* hours before t
ActiveWorkers(ws, t) ==
    {w \in StatsOf(ws) : ws[w].trust_level # "BANNED"
                         /\ t - ws[w].last_active < 86400}

\* the confirmations a progress claim needs with n active workers: all of
\* them below three, otherwise at least 3 and at least 2f + 1, f = n \div 3
ByzantineQuorum(n) ==
    IF n < 3 THEN n
    ELSE IF 2 * (n \div 3) + 1 < 3 THEN 3 ELSE 2 * (n \div 3) + 1

\* the distinct users among the confirmations of a progress entry
ConfirmingUsers(entry) ==
    {entry.confirmations[i].user_id : i \in DOMAIN entry.confirmations}

\* C31: a progress entry is created with at least ByzantineQuorum(n)
\* required confirmations, n the active non-banned workers at that moment,
\* and a progress claim reaches consensus only with at least that many
\* distinct confirming users.
C31_ProgressQuorum ==
    [][CallOf("submit_progress_claim") =>
        LET h == last_call'.claimed
            n == Cardinality(ActiveWorkers(workers, clock))
        IN /\ (h \notin DOMAIN progress_consensus
                  /\ h \in DOMAIN progress_consensus')
               => progress_consensus'[h].required_confirmations
                     >= ByzantineQuorum(n)
           /\ last_call'.ok
               => Cardinality(ConfirmingUsers(progress_consensus'[h]))
                     >= ByzantineQuorum(n)]_vars

\* the workers whose confirmations the consensus state of range r holds
ConfirmersOf(pc, r) ==
    {ConfsOf(pc, r)[i].worker_id : i \in DOMAIN ConfsOf(pc, r)}

\* range r has resolved by consensus and its state is still stored
ResolvedState(r) ==
    pending_consensus[r].pending /\ pending_consensus[r].consensus_reached

\* C32: a worker's correct_verifications is increased at most once on
\* account of a range: a submission for a range that has already resolved
\* by consensus does not increase correct_verifications of the workers
\* whose confirmations resolved it.
C32_RewardedOncePerRange ==
    [][\A r \in Ranges :
        (ResolvedState(r)
            /\ \E v \in Workers \ ConfirmersOf(pending_consensus, r) :
                  SubmissionOf(v, r))
        => \A w \in ConfirmersOf(pending_consensus, r) :
              workers'[w].correct_verifications
                 = workers[w].correct_verifications]_vars

(***************************************************************************)
(* Forgery specification: besides the workers, a party that holds none of  *)
(* their keys submits proofs that name them.                               *)
(***************************************************************************)
\* calls made in one behaviour of the forgery specification
MaxForgeryOps == 3

\* what the outsider can submit under the name of w: a well-formed proof
\* signed with and carrying its own key, the same with a result that the
\* signature does not cover, and a proof that carries w's public key under
\* a signature made with the outsider's key
OutsiderProofs(w) ==
    LET r == <<1, 1000>>
    IN {ForgedProof(w, r, conv) : conv \in BOOLEAN}
       \cup {[ForgedProof(w, r, TRUE) EXCEPT !.all_converged = FALSE],
             [ForgedProof(w, r, TRUE) EXCEPT !.public_key_pem = KeyOf(w)]}

ForgeryInputs ==
    {HonestProof(w, <<1, 1000>>, conv) : w \in LedgerWorkers, conv \in BOOLEAN}
    \cup UNION {OutsiderProofs(w) : w \in LedgerWorkers}

ForgeryNext ==
    /\ nops < MaxForgeryOps
    /\ \/ \E w \in LedgerWorkers : CallRegisterWorker(w)
       \/ \E p \in ForgeryInputs : submit_for_consensus(p)

ForgerySpec == Init /\ [][ForgeryNext]_vars

\* C33: a proof naming worker W is accepted only if it was signed with the
\* key registered for W: a proof that is signed with and carries another
\* party's key is refused by validate_proof and adds no confirmation.
C33_OnlyRegisteredKey ==
    [][(CallOf("submit_for_consensus")
           /\ last_call'.signer # KeyOf(last_call'.worker)
           /\ last_call'.public_key_pem = last_call'.signer)
        => /\ ~last_call'.valid
           /\ pending_consensus' = pending_consensus]_vars

\* C34: a registered worker W becomes BANNED through proof validation only
\* by a proof that was signed with W's key.
C34_BannedByOwnProof ==
    [][\A w \in Workers :
        (CallOf("submit_for_consensus")
            /\ ~last_call'.valid
            /\ workers[w].registered
            /\ workers[w].trust_level # "BANNED"
            /\ workers'[w].registered
            /\ workers'[w].trust_level = "BANNED")
        => last_call'.signer = KeyOf(w)]_vars

\* the ranges [range_start, range_end) of assignments a and b share a number
Overlap(a, b) == a.range_start < b.range_end /\ b.range_start < a.range_end

\* C35: in every reachable registry state, also after merges of snapshots of
\* nodes that generated work independently, no two distinct assignments
\* have identical or overlapping ranges.
C35_NoOverlappingRanges ==
    \A id1 \in DOMAIN work_assignments, id2 \in DOMAIN work_assignments :
        id1 # id2 => ~Overlap(work_assignments[id1], work_assignments[id2])

\* the assignment table of the node that published the assignments S
TableOf(S) ==
    [id \in {a.assignment_id : a \in S} |->
        CHOOSE a \in S : a.assignment_id = id]

\* the workers in a completed_workers list
Completed(a) == {a.completed_workers[i] : i \in DOMAIN a.completed_workers}

\* tables mine and theirs hold the same ids and, for every id, the same
\* completed workers and status
SameTable(mine, theirs) ==
    /\ DOMAIN mine = DOMAIN theirs
    /\ \A id \in DOMAIN mine :
          /\ mine[id].completed_workers = theirs[id].completed_workers
          /\ mine[id].status = theirs[id].status

\* every completed worker of table before is a completed worker in after
KeepsCompleted(before, after) ==
    \A id \in DOMAIN before :
        id \in DOMAIN after /\ Completed(before[id]) \subseteq Completed(after[id])

\* C36: replicas converge.  When this node has merged a peer's snapshot and
\* the peer then merges this node's snapshot, with no other activity, both
\* hold the same assignment table (ids, completed_workers, status), and no
\* completed worker recorded by either node before the exchange is lost.
C36_ReplicasConverge ==
    [][(CallOf("merge_peer_state")
           /\ last_call'.peer_state_cid.undecodable = "none")
        => LET peer == TableOf(last_call'.peer_state_cid.work_assignments)
               theirs == MergeAssignments(peer, Values(work_assignments'))
           IN /\ SameTable(work_assignments', theirs)
              /\ KeepsCompleted(work_assignments, work_assignments')
              /\ KeepsCompleted(peer, work_assignments')
              /\ KeepsCompleted(work_assignments, theirs)
              /\ KeepsCompleted(peer, theirs)]_vars

\* C37: once an assignment's status is 'completed' it never returns to
\* 'available' or 'in_progress' through stale-worker eviction, scheduling or
\* peer merge: only mark_conflict moves it out of 'completed'.
C37_CompletedIsStable ==
    [][\A id \in DOMAIN work_assignments :
        (work_assignments[id].status = "completed"
            /\ id \in DOMAIN work_assignments'
            /\ work_assignments'[id].status # "completed")
        => /\ last_call'.op = "mark_conflict"
           /\ work_assignments'[id].status = "conflict"]_vars

(***************************************************************************)
(* Local scheduling specification: one node, no peers.  Its workers send   *)
(* heartbeats through claim_work, with the user account of the node        *)
(* (build/lib worker program) or without one (src worker program), and     *)
(* submit the proofs of the assignments they were given.                   *)
(***************************************************************************)
\* calls made in one behaviour of the local scheduling specification
MaxLocalOps == 4

LocalNext ==
    /\ nops < MaxLocalOps
    /\ \/ \E w \in RegistryWorkers :
             \E user_id \in {owner[w], None} : claim_work(w, user_id)
       \/ \E w \in RegistryWorkers, id \in DOMAIN work_assignments :
             /\ Holds(w, id)
             /\ submit_verification_proof(w, id, TRUE)

LocalSpec == RegistryInit /\ [][LocalNext]_vars

\* no worker id occurs twice in the list seq
NoRepeats(seq) ==
    \A i \in DOMAIN seq, j \in DOMAIN seq : i # j => seq[i] # seq[j]

\* C38: in every state reached by local heartbeats, scheduling passes and
\* proof submissions, no worker id appears more than once in any
\* assignment's assigned_workers, for workers with or without a user id, so
\* that an assignment 'in_progress' has redundancy_factor distinct workers.
C38_DistinctAssignedWorkers ==
    \A id \in DOMAIN work_assignments :
        LET a == work_assignments[id]
        IN /\ NoRepeats(a.assigned_workers)
           /\ a.status = "in_progress"
                => Cardinality({a.assigned_workers[i] :
                                   i \in DOMAIN a.assigned_workers})
                      >= a.redundancy_factor

\* the workers that a heartbeat of worker_id at the current time finds stale
StaleFor(worker_id) ==
    {wid \in DOMAIN available_workers \ {worker_id} :
        clock - available_workers[wid].timestamp > STALE_SECONDS}

\* worker v is recorded on both sides as working on assignment id
OnAssignment(wasg, wa, v, id) ==
    /\ v \in DOMAIN wasg
    /\ wasg[v] = id
    /\ id \in DOMAIN wa
    /\ InSeq(v, wa[id].assigned_workers)

\* C39: the eviction of stale workers during register_worker_availability(w)
\* changes only the stale workers' own entries: w and every other live
\* worker keep their place in assigned_workers and their worker_assignments
\* entry, and an assignment that no stale worker holds is not set back to
\* 'available'.
C39_EvictionFrame ==
    [][CallOf("claim_work") =>
        LET w == last_call'.worker
            stale == StaleFor(w)
        IN /\ \A v \in DOMAIN worker_assignments \ stale :
                \A id \in DOMAIN work_assignments :
                    OnAssignment(worker_assignments, work_assignments, v, id)
                    => OnAssignment(worker_assignments', work_assignments', v, id)
           /\ \A id \in DOMAIN work_assignments :
                (/\ work_assignments[id].status # "available"
                 /\ \A wid \in stale :
                       wid \in DOMAIN worker_assignments
                          => worker_assignments[wid] # id)
                => work_assignments'[id].status # "available"]_vars

(***************************************************************************)
(* Fair consensus specification: the range [1,1000) was opened by the      *)
(* TRUSTED worker A with the true result (all converged) and C has         *)
(* submitted a wrong result, so that the second confirmation flagged a     *)
(* conflict.  The other nodes, each of its own user, then submit the true  *)
(* result, and every node that has not submitted yet eventually does.      *)
(***************************************************************************)
\* submissions made after the conflict in one behaviour
MaxFairOps == 4

FairRange == <<1, 1000>>

\* the database before the range was opened
FairDatabase ==
    [w \in Workers |->
        IF w = "A" THEN StoredStats(ScenarioOwner[w], 100, 100, 0, "TRUSTED", 100)
        ELSE NoStats]

\* the VerificationResult of worker w as the ledger of the build receives it
FairResult(w, conv) ==
    VerificationResult(w, IF build = "lib" THEN ScenarioOwner[w] ELSE None,
                       FairRange, conv, ExpectedChecked(FairRange),
                       ComputeTime, Now)

\* the ledger after A's and C's submissions
FlaggedConflict ==
    LET opened == submit_verification(FairDatabase,
                      [r \in Ranges |-> NoState], FairResult("A", TRUE))
    IN submit_verification(opened.ws, opened.pc, FairResult("C", FALSE))

FairInit ==
    /\ build \in {"src", "lib"}
    /\ owner = ScenarioOwner
    /\ workers = FlaggedConflict.ws
    /\ pending_consensus = FlaggedConflict.pc
    /\ pending_cross_checks =
          [r \in Ranges |->
              IF build = "src" /\ r = FairRange
              THEN <<HonestProof("A", r, TRUE), HonestProof("C", r, FALSE)>>
              ELSE <<>>]
    /\ last_call = NoCall
    /\ escalated =
          [r \in Ranges |->
              IF r = FairRange
              THEN FlaggedConflict.pc[r].required_confirmations ELSE 0]
    /\ nops = 0
    /\ CoordinatorInit

\* node w, which has not submitted for the range yet, submits the true
\* result: through the proof pipeline in the src build, directly in lib
SubmitTrue(w) ==
    /\ w \notin Confirmers(FairRange)
    /\ nops < MaxFairOps
    /\ \/ /\ build = "lib"
          /\ CallSubmitVerification(w, FairRange, TRUE, MaxFairOps)
       \/ /\ build = "src"
          /\ submit_for_consensus(HonestProof(w, FairRange, TRUE))

FairNext == \E w \in ScenarioWorkers : SubmitTrue(w)

FairSpec ==
    /\ FairInit
    /\ [][FairNext]_vars
    /\ WF_vars(FairNext)

\* range r is resolved by consensus with the true result
ResolvedTrue(r) ==
    /\ pending_consensus[r].pending
    /\ pending_consensus[r].consensus_reached
    /\ pending_consensus[r].consensus_result = TRUE

\* a conflict has been flagged on range r and is not resolved
Flagged(r) ==
    /\ pending_consensus[r].pending
    /\ ~pending_consensus[r].consensus_reached
    /\ pending_consensus[r].conflicting_results # <<>>

====
